---- MODULE Spec2Model ----
(***************************************************************************)
(* Verification model of the LOOKER spend/revenue reconciliation engine.   *)
(*                                                                         *)
(* Strings are sequences of one-character tokens (<<"A","d","X">>); the    *)
(* tokens "a_acute", "o_acute" stand for the accented letters.             *)
(* Money is an integer number of thousandths of a currency unit (mills),   *)
(* so that sub-cent amounts exist and rounding to 2 decimals acts.         *)
(* Quotients (roas, cpl, conversion_rate, proportional spend) are exact    *)
(* rationals <<num, den>> in lowest terms; a zero denominator is what      *)
(* JavaScript yields for x/0 (Infinity or NaN).                            *)
(***************************************************************************)
EXTENDS Integers, Sequences, FiniteSets, TLC

(***************************************************************************)
(* Generic helpers                                                         *)
(***************************************************************************)
Abs(x) == IF x < 0 THEN -x ELSE x

RECURSIVE GCD(_, _)
GCD(a, b) == IF b = 0 THEN a ELSE GCD(b, a % b)

\* JavaScript's n / d on numbers, kept exact: <<num, den>> in lowest terms.
\* d = 0 gives <<1,0>> (Infinity), <<-1,0>> (-Infinity) or <<0,0>> (NaN).
Ratio(n, d) ==
    IF d = 0 THEN <<(IF n > 0 THEN 1 ELSE IF n < 0 THEN -1 ELSE 0), 0>>
    ELSE LET g == GCD(Abs(n), Abs(d))
             s == IF d < 0 THEN -1 ELSE 1
         IN  <<(s * n) \div g, (s * d) \div g>>

RZero == Ratio(0, 1)

IsFinite(q) == q[2] # 0

RAdd(p, q) == Ratio(p[1] * q[2] + q[1] * p[2], p[2] * q[2])

RMulInt(q, k) == Ratio(q[1] * k, q[2])

RGeq(p, q) == p[1] * q[2] >= q[1] * p[2]

RLeq(p, q) == p[1] * q[2] <= q[1] * p[2]

RLt(p, q) == p[1] * q[2] < q[1] * p[2]

RPos(q) == q[1] > 0 /\ q[2] > 0

RInt(n) == <<n, 1>>

RSub(p, q) == Ratio(p[1] * q[2] - q[1] * p[2], p[2] * q[2])

RDiv(p, q) == Ratio(p[1] * q[2], p[2] * q[1])

\* Math.round of a finite quotient: the nearest integer, halves upwards.
RRound(q) == (2 * q[1] + q[2]) \div (2 * q[2])

RECURSIVE SumSeq(_)
SumSeq(s) == IF s = <<>> THEN 0 ELSE Head(s) + SumSeq(Tail(s))

RECURSIVE RSumSeq(_)
RSumSeq(s) == IF s = <<>> THEN RZero ELSE RAdd(Head(s), RSumSeq(Tail(s)))

Range(s) == {s[i] : i \in DOMAIN s}

\* Array.prototype.sort((a, b) => key(b) - key(a)) is a stable sort by key
\* descending: element i lands after every element with a larger key and
\* after every earlier element with an equal key.  k[i] is the key of s[i].
SortDescBy(s, k) ==
    LET pos(i) == 1 + Cardinality({j \in DOMAIN s : k[j] > k[i] \/ (k[j] = k[i] /\ j < i)})
    IN  [p \in DOMAIN s |-> s[CHOOSE i \in DOMAIN s : pos(i) = p]]

\* The same sort with quotients as keys.
SortDescByRatio(s, k) ==
    LET pos(i) == 1 + Cardinality({j \in DOMAIN s : RLt(k[i], k[j]) \/ (k[j] = k[i] /\ j < i)})
    IN  [p \in DOMAIN s |-> s[CHOOSE i \in DOMAIN s : pos(i) = p]]

(***************************************************************************)
(* Money                                                                   *)
(***************************************************************************)
\* One cent in mills.
Cent == 10

\* Cutting the digits after the second decimal instead of rounding.
ToFixed2_Truncated(x) == (x \div Cent) * Cent

\* parseFloat(Number(x).toFixed(2)): round to the nearest cent.
ToFixed2(x) ==
    IF x >= 0 THEN ((x + Cent \div 2) \div Cent) * Cent
    ELSE -(((-x + Cent \div 2) \div Cent) * Cent)

(***************************************************************************)
(* Name Normalizer (csvProcessor)                                          *)
(***************************************************************************)
Whitespace == {" ", "\t"}

UpperToLower ==
    [c \in {"A", "B", "C", "D", "E", "F", "G", "I", "J", "M", "N", "O", "P", "Q", "S",
            "X"} |->
        CASE c = "A" -> "a" [] c = "B" -> "b" [] c = "C" -> "c" [] c = "D" -> "d"
          [] c = "E" -> "e" [] c = "F" -> "f" [] c = "G" -> "g" [] c = "I" -> "i"
          [] c = "J" -> "j"
          [] c = "M" -> "m" [] c = "N" -> "n" [] c = "O" -> "o" [] c = "P" -> "p"
          [] c = "Q" -> "q" [] c = "S" -> "s" [] c = "X" -> "x"]

\* Accented letters: lower-casing keeps the accent, NFD + removal of the
\* combining marks leaves the base letter.
AccentUpperToLower == [c \in {"A_acute", "E_acute"} |->
                          IF c = "A_acute" THEN "a_acute" ELSE "e_acute"]

AccentBase == [c \in {"a_acute", "e_acute"} |-> IF c = "a_acute" THEN "a" ELSE "e"]

LowerLetters == {"a", "b", "c", "d", "e", "f", "g", "i", "j", "k", "m", "n", "o", "p",
                 "q", "r", "s", "t", "u", "v", "w", "x"}

Digits == {"0", "1", "2", "3", "4", "5", "6", "7", "8", "9"}

ToLowerChar(c) ==
    IF c \in DOMAIN UpperToLower THEN UpperToLower[c]
    ELSE IF c \in DOMAIN AccentUpperToLower THEN AccentUpperToLower[c]
    ELSE c

ToLowerCase(s) == [i \in DOMAIN s |-> ToLowerChar(s[i])]

StartsWith(s, p) == Len(s) >= Len(p) /\ SubSeq(s, 1, Len(p)) = p

EndsWithCI(s, p) ==
    Len(s) >= Len(p) /\ ToLowerCase(SubSeq(s, Len(s) - Len(p) + 1, Len(s))) = p

DropFirst(s, n) == SubSeq(s, n + 1, Len(s))

DropLast(s, n) == SubSeq(s, 1, Len(s) - n)

RECURSIVE TrimStart(_)
TrimStart(s) ==
    IF s # <<>> /\ Head(s) \in Whitespace THEN TrimStart(Tail(s)) ELSE s

RECURSIVE TrimEnd(_)
TrimEnd(s) ==
    IF s # <<>> /\ s[Len(s)] \in Whitespace THEN TrimEnd(DropLast(s, 1)) ELSE s

Trim(s) == TrimEnd(TrimStart(s))

UtmPrefix == <<"{", "{", "a", "d", "s", "u", "t", "m", "_", "c", "o", "n", "t", "e", "n", "t", "=">>

AdsetPlaceholder == <<"{", "{", "a", "d", "s", "e", "t", ".", "n", "a", "m", "e", "}", "}">>

VideoExts == {<<".", "m", "p", "4">>, <<".", "m", "o", "v">>, <<".", "a", "v", "i">>,
              <<".", "m", "k", "v">>, <<".", "w", "m", "v">>}

ImageExts == {<<".", "j", "p", "g">>, <<".", "j", "p", "e", "g">>, <<".", "p", "n", "g">>,
              <<".", "g", "i", "f">>, <<".", "w", "e", "b", "p">>}

SinNombre == <<"[", "S", "i", "n", " ", "n", "o", "m", "b", "r", "e", "]">>

Undefined == <<"u", "n", "d", "e", "f", "i", "n", "e", "d">>

\* str.replace(/^\{\{([^}]*)\}\}/, ''): a leading {{ ... }} whose inside
\* holds no closing brace.
RECURSIVE FirstBrace(_, _)
FirstBrace(s, i) ==
    IF i > Len(s) THEN 0 ELSE IF s[i] = "}" THEN i ELSE FirstBrace(s, i + 1)

StripLeadingPlaceholder(s) ==
    IF StartsWith(s, <<"{", "{">>)
    THEN LET i == FirstBrace(s, 3)
         IN  IF i # 0 /\ i < Len(s) /\ s[i + 1] = "}" THEN DropFirst(s, i + 1) ELSE s
    ELSE s

StripExt(s, exts) ==
    LET Found == {e \in exts : EndsWithCI(s, e)}
    IN  IF Found # {} THEN DropLast(s, Len(CHOOSE e \in Found : TRUE)) ELSE s

\* str.replace(/\{\{|\}\}|=/g, '')
RECURSIVE StripBraces(_)
StripBraces(s) ==
    IF s = <<>> THEN <<>>
    ELSE IF StartsWith(s, <<"{", "{">>) \/ StartsWith(s, <<"}", "}">>)
         THEN StripBraces(DropFirst(s, 2))
    ELSE IF Head(s) = "=" THEN StripBraces(Tail(s))
    ELSE <<Head(s)>> \o StripBraces(Tail(s))

cleanDisplayName(name) ==
    LET NoUtm(str)   == IF StartsWith(str, UtmPrefix)
                        THEN DropFirst(str, Len(UtmPrefix)) ELSE str
        NoAdset(str) == IF str = AdsetPlaceholder THEN <<>> ELSE str
        Named(trimmed) ==
            IF trimmed = <<"-">> \/ trimmed = <<>> \/ trimmed = Undefined
            THEN SinNombre
            ELSE trimmed
    IN  IF name = <<>> THEN <<>>
        ELSE Named(Trim(StripBraces(
                 StripExt(StripExt(StripLeadingPlaceholder(NoAdset(NoUtm(name))),
                                   VideoExts),
                          ImageExts))))

RemoveAccents(s) == [i \in DOMAIN s |-> IF s[i] \in DOMAIN AccentBase THEN AccentBase[s[i]] ELSE s[i]]

KeptChar(c) == c \in LowerLetters \/ c \in Digits \/ c \in Whitespace \/ c = "-" \/ c = "_"

RECURSIVE KeepAllowed(_)
KeepAllowed(s) ==
    IF s = <<>> THEN <<>>
    ELSE IF KeptChar(Head(s)) THEN <<Head(s)>> \o KeepAllowed(Tail(s))
    ELSE KeepAllowed(Tail(s))

\* normalized.replace(/\s+/g, ' ')
RECURSIVE CollapseSpaces(_)
CollapseSpaces(s) ==
    IF s = <<>> THEN <<>>
    ELSE IF Head(s) \in Whitespace
         THEN <<" ">> \o CollapseSpaces(TrimStart(s))
    ELSE <<Head(s)>> \o CollapseSpaces(Tail(s))

normalizeAdName(name) ==
    LET Normalized(cleaned) ==
            IF cleaned = <<>> \/ cleaned = SinNombre THEN <<>>
            ELSE Trim(CollapseSpaces(KeepAllowed(RemoveAccents(ToLowerCase(cleaned)))))
    IN  Normalized(cleanDisplayName(name))

(***************************************************************************)
(* JavaScript object key order (Record<string, ...>)                       *)
(***************************************************************************)
RECURSIVE DigitsValue(_)
DigitsValue(s) ==
    IF s = <<>> THEN 0
    ELSE 10 * DigitsValue(DropLast(s, 1))
         + (CHOOSE d \in 0..9 : <<"0", "1", "2", "3", "4", "5", "6", "7", "8", "9">>[d + 1] = s[Len(s)])

\* A canonical array index ("0", "7", "123"): such keys are enumerated
\* first, in ascending numeric order, before every other key.
IsArrayIndex(key) ==
    /\ key # <<>>
    /\ Len(key) <= 9
    /\ \A i \in DOMAIN key : key[i] \in Digits
    /\ (Len(key) = 1 \/ key[1] # "0")

KeyBefore(k1, k2) ==
    IF IsArrayIndex(k1)
    THEN (~IsArrayIndex(k2)) \/ DigitsValue(k1) < DigitsValue(k2)
    ELSE FALSE

\* obj[rec.key] = rec for a key that is not yet present.
RECURSIVE ObjectInsert(_, _)
ObjectInsert(obj, rec) ==
    IF obj = <<>> THEN <<rec>>
    ELSE IF KeyBefore(rec.key, Head(obj).key) THEN <<rec>> \o obj
    ELSE <<Head(obj)>> \o ObjectInsert(Tail(obj), rec)

\* Index of the entry with this key, 0 when obj[key] is undefined.
FindKey(obj, key) ==
    IF \E i \in DOMAIN obj : obj[i].key = key
    THEN CHOOSE i \in DOMAIN obj : obj[i].key = key
    ELSE 0

\* First index satisfying P, 0 when none (a for..of loop that breaks).
FirstIndex(s, P(_)) ==
    IF \E i \in DOMAIN s : P(s[i])
    THEN CHOOSE i \in DOMAIN s : P(s[i]) /\ \A j \in 1..(i - 1) : ~P(s[j])
    ELSE 0

(***************************************************************************)
(* Spend Ledger Builder: processSpendCSV                                   *)
(***************************************************************************)
\* The amount left in the report's currency.
ConvertAmount_Unconverted(amount, rate) == amount

\* amount / exchangeRate when exchangeRate > 0 (to the model's resolution).
ConvertAmount(amount, rate) == IF rate > 0 THEN amount \div rate ELSE amount

\* One iteration of the loop over results.data.  segs is the segmentations
\* object (entries in insertion order, keyed by <<ad, seg>>), mapping the
\* spend_mapping object.
ProcessCsvRow(segs, mapping, data, rate) ==
    LET Accumulate(segs1, unique_key, amount) ==
            [segs1 EXCEPT ![FindKey(segs1, unique_key)].spend = @ + amount]
        Keyed(campaign_name, ad_set_name, ad_name_original, ad_id,
              ad_name_normalized, unique_key, i) ==
            [segmentations |->
                 Accumulate(IF i = 0
                            THEN Append(segs, [key |-> unique_key,
                                               campaign_name |-> campaign_name,
                                               ad_set_name |-> ad_set_name,
                                               ad_name_original |-> ad_name_original,
                                               ad_name_normalized |-> ad_name_normalized,
                                               ad_id |-> ad_id,
                                               segmentation_name |-> ad_set_name,
                                               spend |-> 0])
                            ELSE segs,
                            unique_key,
                            ConvertAmount(data.amount, rate)),
             mapping |-> IF i = 0 /\ ad_name_normalized \notin DOMAIN mapping
                         THEN mapping @@ (ad_name_normalized :> ad_name_original)
                         ELSE mapping]
        Normalized(campaign_name, ad_set_name, ad_name_original, ad_id,
                   ad_name_normalized, unique_key) ==
            Keyed(campaign_name, ad_set_name, ad_name_original, ad_id,
                  ad_name_normalized, unique_key, FindKey(segs, unique_key))
        Named(campaign_name, ad_set_name, ad_name_original, ad_id, ad_name_normalized) ==
            Normalized(campaign_name, ad_set_name, ad_name_original, ad_id,
                       ad_name_normalized,
                       <<ad_name_normalized, normalizeAdName(ad_set_name)>>)
        Trimmed(campaign_name, ad_set_name, ad_name_original, ad_id) ==
            IF campaign_name # <<>> /\ ad_set_name # <<>> /\ ad_name_original # <<>>
            THEN Named(campaign_name, ad_set_name, ad_name_original, ad_id,
                       normalizeAdName(ad_name_original))
            ELSE [segmentations |-> segs, mapping |-> mapping]
    IN  Trimmed(Trim(data.campaign), Trim(data.adset), Trim(data.ad), Trim(data.ad_id))

(***************************************************************************)
(* Reconciliation Engine: processDashboardData                             *)
(***************************************************************************)
OrganicaKey == <<"o", "r", "g", "a", "n", "i", "c", "a">>

OrganicaDisplay == <<"O", "r", "g", "a_acute", "n", "i", "c", "a">>

\* The 'organica' entry seeded from the organic query.  The entries created
\* later (lines 611 and 707) have no profit field until the final loop.
OrganicAd(org) ==
    [key |-> OrganicaKey,
     ad_name_display |-> OrganicaDisplay,
     total_revenue |-> org.total_revenue,
     total_leads |-> 0,
     total_sales |-> org.total_sales,
     total_spend |-> 0,
     roas |-> RZero,
     profit |-> org.total_revenue,
     segmentations |-> <<[name |-> OrganicaDisplay,
                          campaign_name |-> OrganicaDisplay,
                          ad_id |-> <<>>,
                          revenue |-> org.total_revenue,
                          leads |-> 0,
                          sales |-> org.total_sales,
                          spend_allocated |-> 0,
                          profit |-> org.total_revenue,
                          cpl |-> RZero,
                          conversion_rate |-> RZero,
                          processed_bd_keys |-> {}]>>]

SeedOrganicAds(org) ==
    IF org # <<>> /\ org[1].total_sales > 0 THEN <<OrganicAd(org[1])>> ELSE <<>>

ConversionRate(sales, leads) == IF leads > 0 THEN Ratio(sales * 100, leads) ELSE RZero

Cpl(spend_allocated, leads) == IF leads > 0 THEN Ratio(spend_allocated, leads) ELSE RZero

\* The dedup guard of the revenue loop: may this row's figures be added to
\* the segmentation it was matched to?
NotYetProcessed(seg, uniqueBdKey) == uniqueBdKey \notin seg.processed_bd_keys

\* A matched segmentation entry after the revenue loop's "found" branch.
RevenueIntoSeg(seg, uniqueBdKey, campaignName, revenue, leads, sales) ==
    LET acc == IF NotYetProcessed(seg, uniqueBdKey)
               THEN [seg EXCEPT !.revenue = @ + revenue,
                                !.leads = @ + leads,
                                !.sales = @ + sales,
                                !.processed_bd_keys = @ \cup {uniqueBdKey}]
               ELSE seg
    IN  [acc EXCEPT !.campaign_name = campaignName,
                    !.conversion_rate = ConversionRate(acc.sales, acc.leads)]

\* The ad entry's running totals after a revenue row (lines 656-658).
AddRevenueTotals(ad, revenue, leads, sales) ==
    [ad EXCEPT !.total_revenue = @ + revenue,
               !.total_leads = @ + leads,
               !.total_sales = @ + sales]

\* One iteration of the loop over revenueData.
RevenueRowStep(ads, mapping, revItem) ==
    LET adNameNormalized       == normalizeAdName(revItem.ANUNCIO)
        segmentationNormalized == normalizeAdName(revItem.SEGMENTACION)
        revenue == revItem.total_revenue
        leads   == revItem.total_leads
        sales   == revItem.total_sales
        displayName == IF adNameNormalized \in DOMAIN mapping
                       THEN cleanDisplayName(mapping[adNameNormalized])
                       ELSE cleanDisplayName(revItem.ANUNCIO)
        ads1 == IF FindKey(ads, adNameNormalized) = 0
                THEN ObjectInsert(ads, [key |-> adNameNormalized,
                                        ad_name_display |-> displayName,
                                        total_revenue |-> 0,
                                        total_leads |-> 0,
                                        total_sales |-> 0,
                                        total_spend |-> 0,
                                        roas |-> RZero,
                                        segmentations |-> <<>>])
                ELSE ads
        a    == FindKey(ads1, adNameNormalized)
        segs == ads1[a].segmentations
        Match(existingSeg) == normalizeAdName(existingSeg.name) = segmentationNormalized
        j    == FirstIndex(segs, Match)
        uniqueBdKey == <<adNameNormalized, segmentationNormalized, revenue, leads>>
        segs1 == IF j # 0
                 THEN [segs EXCEPT ![j] = RevenueIntoSeg(@, uniqueBdKey, revItem.CAMPANA,
                                                         revenue, leads, sales)]
                 ELSE Append(segs, [name |-> cleanDisplayName(revItem.SEGMENTACION),
                                    campaign_name |-> revItem.CAMPANA,
                                    ad_id |-> revItem.AD_ID,
                                    revenue |-> revenue,
                                    leads |-> leads,
                                    sales |-> sales,
                                    spend_allocated |-> 0,
                                    profit |-> revenue,
                                    cpl |-> RZero,
                                    conversion_rate |-> ConversionRate(sales, leads),
                                    processed_bd_keys |-> {}])
    IN  [ads1 EXCEPT ![a] = AddRevenueTotals([@ EXCEPT !.segmentations = segs1],
                                             revenue, leads, sales)]

\* findMatchingAdKey: the first ad, in key order, holding a segmentation
\* with the spend row's platform ad-id; otherwise the normalized ad name.
findMatchingAdKey(segData, ads) ==
    LET HasId(adData) == \E s \in DOMAIN adData.segmentations :
                            /\ adData.segmentations[s].ad_id # <<>>
                            /\ adData.segmentations[s].ad_id = segData.ad_id
        i == FirstIndex(ads, HasId)
    IN  IF segData.ad_id # <<>> /\ i # 0 THEN ads[i].key ELSE segData.ad_name_normalized

\* Does the spend row go to this existing segmentation entry (lines 675, 681)?
SpendMatchesSeg(existingSeg, adIdFromCsv, segmentationNormalized) ==
    \/ (adIdFromCsv # <<>> /\ existingSeg.ad_id # <<>> /\ adIdFromCsv = existingSeg.ad_id)
    \/ normalizeAdName(existingSeg.name) = segmentationNormalized

SpendIntoSeg(existingSeg, spend) ==
    LET s1 == [existingSeg EXCEPT !.spend_allocated = @ + spend]
    IN  [s1 EXCEPT !.profit = s1.revenue - s1.spend_allocated,
                   !.cpl = Cpl(s1.spend_allocated, s1.leads)]

SpendOnlySeg(segData) ==
    [name |-> cleanDisplayName(segData.segmentation_name),
     campaign_name |-> segData.campaign_name,
     ad_id |-> segData.ad_id,
     revenue |-> 0,
     leads |-> 0,
     sales |-> 0,
     spend_allocated |-> segData.spend,
     profit |-> -segData.spend,
     cpl |-> RZero,
     conversion_rate |-> RZero,
     processed_bd_keys |-> {}]

\* Assigning the spend instead of adding it.
AddSpendTotal_Assigned(ad, spend) == [ad EXCEPT !.total_spend = spend]

\* ads[matchingAdKey].total_spend += spend (line 705).
AddSpendTotal(ad, spend) == [ad EXCEPT !.total_spend = @ + spend]

\* One iteration of the "Assign Spends" loop.
SpendStep(ads, segData) ==
    LET segmentationNormalized == normalizeAdName(segData.segmentation_name)
        matchingAdKey == findMatchingAdKey(segData, ads)
        a == FindKey(ads, matchingAdKey)
    IN  IF a # 0
        THEN LET segs == ads[a].segmentations
                 Match(existingSeg) == SpendMatchesSeg(existingSeg, segData.ad_id,
                                                       segmentationNormalized)
                 j == FirstIndex(segs, Match)
                 segs1 == IF j # 0
                          THEN [segs EXCEPT ![j] = SpendIntoSeg(@, segData.spend)]
                          ELSE Append(segs, SpendOnlySeg(segData))
             IN  [ads EXCEPT ![a] = AddSpendTotal([@ EXCEPT !.segmentations = segs1],
                                                  segData.spend)]
        ELSE ObjectInsert(ads, [key |-> segData.ad_name_normalized,
                                ad_name_display |-> cleanDisplayName(segData.ad_name_original),
                                total_revenue |-> 0,
                                total_leads |-> 0,
                                total_sales |-> 0,
                                total_spend |-> segData.spend,
                                roas |-> RZero,
                                segmentations |-> <<SpendOnlySeg(segData)>>])

\* The bare quotient.
Roas_Unguarded(revenue, spend) == Ratio(revenue, spend)

\* revenue / spend, guarded.
Roas(revenue, spend) == IF spend > 0 THEN Ratio(revenue, spend) ELSE RZero

\* Lines 750-755: profit and cpl of a segmentation are filled in only when
\* no earlier statement has set them.
BackfillSeg(seg) ==
    LET s1 == IF "profit" \in DOMAIN seg THEN seg
              ELSE ("profit" :> (seg.revenue - seg.spend_allocated)) @@ seg
    IN  IF "cpl" \in DOMAIN s1 THEN s1
        ELSE ("cpl" :> (IF s1.leads > 0 /\ s1.spend_allocated > 0
                        THEN Ratio(s1.spend_allocated, s1.leads) ELSE RZero)) @@ s1

\* The body of the "Calculate ROAS" loop for one ad entry (lines 735-758).
FinalizeAd(adData) ==
    LET total_spend   == ToFixed2(adData.total_spend)
        total_revenue == ToFixed2(adData.total_revenue)
        segs == [i \in DOMAIN adData.segmentations |-> BackfillSeg(adData.segmentations[i])]
    IN  ("profit" :> (total_revenue - total_spend)) @@
        [adData EXCEPT !.total_spend = total_spend,
                       !.total_revenue = total_revenue,
                       !.roas = Roas(total_revenue, total_spend),
                       !.segmentations =
                           SortDescBy(segs, [i \in DOMAIN segs |-> segs[i].revenue])]

FinalizeAds(ads) == [i \in DOMAIN ads |-> FinalizeAd(ads[i])]

\* Object.fromEntries(Object.entries(ads).sort(by profit descending)).
RECURSIVE FromEntries(_)
FromEntries(entries) ==
    IF entries = <<>> THEN <<>>
    ELSE ObjectInsert(FromEntries(DropLast(entries, 1)), entries[Len(entries)])

SortedAds(ads) == FromEntries(SortDescBy(ads, [i \in DOMAIN ads |-> ads[i].profit]))

\* The summary with the organic entry's revenue counted as well.
Summary_WithOrganic(ads) ==
    LET totalRevenueAll == SumSeq([i \in DOMAIN ads |-> ads[i].total_revenue])
        totalSpendAll   == SumSeq([i \in DOMAIN ads |-> ads[i].total_spend])
    IN  [totalRevenueAll |-> totalRevenueAll,
         totalSpendAll |-> totalSpendAll,
         totalRoasAll |-> Roas(totalRevenueAll, totalSpendAll)]

\* Lines 731-747 and 899-904: the totals accumulated by the final loop and
\* the overall ROAS of the returned summary.
Summary(ads) ==
    LET totalRevenueAll == SumSeq([i \in DOMAIN ads |->
                               IF ads[i].key # OrganicaKey THEN ads[i].total_revenue ELSE 0])
        totalSpendAll   == SumSeq([i \in DOMAIN ads |-> ads[i].total_spend])
    IN  [totalRevenueAll |-> totalRevenueAll,
         totalSpendAll |-> totalSpendAll,
         totalRoasAll |-> Roas(totalRevenueAll, totalSpendAll)]

(***************************************************************************)
(* Factor Analyzer: analyzeFactors (qualityAnalysis)                       *)
(***************************************************************************)
SinClasificar == <<"S", "i", "n", " ", "C", "l", "a", "s", "i", "f", "i", "c", "a", "r">>

NoEspecificado == <<"N", "o", " ", "E", "s", "p", "e", "c", "i", "f", "i", "c", "a", "d", "o">>

FactorFields == {"qlead", "ingresos", "estudios", "ocupacion", "proposito", "edad_especifica"}

FactorPairs ==
    << <<"qlead", "ingresos">>, <<"qlead", "ocupacion">>, <<"qlead", "edad_especifica">>,
       <<"ingresos", "estudios">>, <<"ingresos", "ocupacion">>,
       <<"ingresos", "edad_especifica">>, <<"estudios", "ocupacion">>,
       <<"edad_especifica", "ocupacion">> >>

\* Least number of leads of a value for it to be classified.
MinSupport == 5

\* Least number of leads of a pair of values for it to be classified.
MinComboSupport == 10

GoodRatio == Ratio(7, 10)

BadRatio == Ratio(3, 10)

GoodComboRatio == Ratio(8, 10)

BadComboRatio == Ratio(2, 10)

\* The default roasThreshold, 1.5.
RoasThreshold == Ratio(3, 2)

\* segment[field] ?? 'Sin Clasificar'
FieldValue(segment, field) ==
    IF field \in DOMAIN segment THEN segment[field] ELSE SinClasificar

\* `${v1} + ${v2}`
ComboValue(segment, pair) ==
    FieldValue(segment, pair[1]) \o <<" ", "+", " ">> \o FieldValue(segment, pair[2])

GoodRoasSegments(qualitySegments, roasThreshold) ==
    SelectSeq(qualitySegments, LAMBDA s : RGeq(s.roas, roasThreshold))

BadRoasSegments(qualitySegments, roasThreshold) ==
    SelectSeq(qualitySegments, LAMBDA s : RLt(s.roas, roasThreshold))

\* goodCounts[value] / badCounts[value]: the leads of the segments of one
\* partition that carry the value.
LeadCount(segs, field, value) ==
    SumSeq([i \in DOMAIN segs |->
               IF FieldValue(segs[i], field) = value THEN segs[i].total_leads ELSE 0])

ComboLeadCount(segs, pair, combo) ==
    SumSeq([i \in DOMAIN segs |->
               IF ComboValue(segs[i], pair) = combo THEN segs[i].total_leads ELSE 0])

\* Math.round((sum of roas / count) * 100) / 100 over the segments given.
AvgRoas(segs) ==
    IF segs = <<>> THEN RZero
    ELSE Ratio(RRound(RMulInt(RDiv(RSumSeq([i \in DOMAIN segs |-> segs[i].roas]),
                                   RInt(Len(segs))), 100)), 100)

\* Math.round(ratio * 1000) / 10
RatioPercent(goodCount, totalCount) ==
    Ratio(RRound(Ratio(goodCount * 1000, totalCount)), 10)

FactorStats(good, bad, field, value) ==
    LET goodCount == LeadCount(good, field, value)
        badCount  == LeadCount(bad, field, value)
        HasValue(seg) == FieldValue(seg, field) = value
    IN  [good_leads |-> goodCount,
         bad_leads |-> badCount,
         ratio |-> RatioPercent(goodCount, goodCount + badCount),
         total_leads |-> goodCount + badCount,
         avg_roas_good |-> AvgRoas(SelectSeq(good, HasValue)),
         avg_roas_bad |-> AvgRoas(SelectSeq(bad, HasValue))]

\* A good factor only above the ratio, not at it.
IsGoodFactor_Strict(goodCount, badCount) ==
    /\ goodCount + badCount >= MinSupport
    /\ ~RLeq(Ratio(goodCount, goodCount + badCount), GoodRatio)

\* The guards of lines 343, 370 and 372 for one value.
IsGoodFactor(goodCount, badCount) ==
    /\ goodCount + badCount >= MinSupport
    /\ RGeq(Ratio(goodCount, goodCount + badCount), GoodRatio)

IsBadFactor(goodCount, badCount) ==
    /\ goodCount + badCount >= MinSupport
    /\ ~RGeq(Ratio(goodCount, goodCount + badCount), GoodRatio)
    /\ RLeq(Ratio(goodCount, goodCount + badCount), BadRatio)

\* good_factors[field] and bad_factors[field] after the loop over allValues.
FieldFactors(good, bad, field) ==
    LET allValues == {FieldValue(s, field) : s \in Range(good) \cup Range(bad)}
    IN  [good_factors |->
             [value \in {v \in allValues : IsGoodFactor(LeadCount(good, field, v),
                                                        LeadCount(bad, field, v))}
                 |-> FactorStats(good, bad, field, value)],
         bad_factors |->
             [value \in {v \in allValues : IsBadFactor(LeadCount(good, field, v),
                                                       LeadCount(bad, field, v))}
                 |-> FactorStats(good, bad, field, value)]]

ComboStats(good, bad, pair, combo) ==
    LET goodCount == ComboLeadCount(good, pair, combo)
        badCount  == ComboLeadCount(bad, pair, combo)
    IN  [good_leads |-> goodCount,
         bad_leads |-> badCount,
         ratio |-> RatioPercent(goodCount, goodCount + badCount),
         total_leads |-> goodCount + badCount,
         factors |-> pair]

IsGoodCombo(goodCount, badCount) ==
    /\ goodCount + badCount >= MinComboSupport
    /\ RGeq(Ratio(goodCount, goodCount + badCount), GoodComboRatio)

IsBadCombo(goodCount, badCount) ==
    /\ goodCount + badCount >= MinComboSupport
    /\ ~RGeq(Ratio(goodCount, goodCount + badCount), GoodComboRatio)
    /\ RLeq(Ratio(goodCount, goodCount + badCount), BadComboRatio)

\* good_factors.combinations and bad_factors.combinations after the loop
\* over factorPairs: both are keyed by the combo string alone, so the last
\* pair that classifies a string is the one whose stats remain.
ComboFactors(good, bad) ==
    LET all == Range(good) \cup Range(bad)
        Combos(p) == {ComboValue(s, FactorPairs[p]) : s \in all}
        GoodAt(p, c) == /\ c \in Combos(p)
                        /\ IsGoodCombo(ComboLeadCount(good, FactorPairs[p], c),
                                       ComboLeadCount(bad, FactorPairs[p], c))
        BadAt(p, c)  == /\ c \in Combos(p)
                        /\ IsBadCombo(ComboLeadCount(good, FactorPairs[p], c),
                                      ComboLeadCount(bad, FactorPairs[p], c))
        allCombos == UNION {Combos(p) : p \in DOMAIN FactorPairs}
        LastGood(c) == CHOOSE p \in DOMAIN FactorPairs :
                           GoodAt(p, c) /\ \A q \in DOMAIN FactorPairs : GoodAt(q, c) => q <= p
        LastBad(c)  == CHOOSE p \in DOMAIN FactorPairs :
                           BadAt(p, c) /\ \A q \in DOMAIN FactorPairs : BadAt(q, c) => q <= p
    IN  [good_factors |->
             [c \in {c \in allCombos : \E p \in DOMAIN FactorPairs : GoodAt(p, c)}
                 |-> ComboStats(good, bad, FactorPairs[LastGood(c)], c)],
         bad_factors |->
             [c \in {c \in allCombos : \E p \in DOMAIN FactorPairs : BadAt(p, c)}
                 |-> ComboStats(good, bad, FactorPairs[LastBad(c)], c)]]

analyzeFactors(qualitySegments, roasThreshold) ==
    LET good == GoodRoasSegments(qualitySegments, roasThreshold)
        bad  == BadRoasSegments(qualitySegments, roasThreshold)
    IN  [good_factors |-> [field \in FactorFields |-> FieldFactors(good, bad, field).good_factors]
                          @@ ("combinations" :> ComboFactors(good, bad).good_factors),
         bad_factors |-> [field \in FactorFields |-> FieldFactors(good, bad, field).bad_factors]
                         @@ ("combinations" :> ComboFactors(good, bad).bad_factors),
         stats |-> [total_segments |-> Len(qualitySegments),
                    high_roas_count |-> Len(good),
                    low_roas_count |-> Len(bad),
                    avg_roas_good |-> AvgRoas(good),
                    avg_roas_bad |-> AvgRoas(bad)]]

(***************************************************************************)
(* Quality Cohort Builder: buildQualityAnalysis (qualityAnalysis)          *)
(***************************************************************************)
\* row.X && String(row.X).trim() ? row.X : fallback
OrDefault(value, fallback) ==
    IF value # <<>> /\ Trim(value) # <<>> THEN value ELSE fallback

\* `${qlead}|${ingresos}|${estudios}|${ocupacion}|${edadEspecifica}`
QualityKey(qlead, ingresos, estudios, ocupacion, edadEspecifica) ==
    qlead \o <<"|">> \o ingresos \o <<"|">> \o estudios \o <<"|">> \o ocupacion
          \o <<"|">> \o edadEspecifica

\* `${adNameNormalized}|${segmentationNormalized}`
QualityAdKey(adNameNormalized, segmentationNormalized) ==
    adNameNormalized \o <<"|">> \o segmentationNormalized

\* getQualityLeadData, lines 514-518: the normalized names of a row.
WithNormalized(row) ==
    [ANUNCIO_NORMALIZED |-> normalizeAdName(row.ANUNCIO),
     SEGMENTACION_NORMALIZED |-> normalizeAdName(row.SEGMENTACION)] @@ row

\* One iteration of the loop over qualityLeadData.
QualityRowStep(qualitySegments, row) ==
    LET qlead     == OrDefault(row.QLEAD, SinClasificar)
        ingresos  == OrDefault(row.INGRESOS, NoEspecificado)
        estudios  == OrDefault(row.ESTUDIOS, NoEspecificado)
        ocupacion == OrDefault(row.OCUPACION, NoEspecificado)
        proposito == OrDefault(row.PROPOSITO, NoEspecificado)
        edadEspecifica == OrDefault(row.EDAD_ESPECIFICA, NoEspecificado)
        puntaje == row.PUNTAJE
        revenue == row.total_revenue
        leads   == row.total_leads
        sales   == row.total_sales
        qualityKey == QualityKey(qlead, ingresos, estudios, ocupacion, edadEspecifica)
        created == [key |-> qualityKey,
                    qlead |-> qlead,
                    ingresos |-> ingresos,
                    estudios |-> estudios,
                    ocupacion |-> ocupacion,
                    proposito |-> proposito,
                    edad_especifica |-> edadEspecifica,
                    avg_puntaje |-> RZero,
                    total_leads |-> 0,
                    total_sales |-> 0,
                    total_revenue |-> 0,
                    total_spend |-> RZero,
                    roas |-> RZero,
                    conversion_rate |-> RZero,
                    profit |-> RZero,
                    cpl |-> RZero,
                    ads |-> <<>>]
        qs1 == IF FindKey(qualitySegments, qualityKey) = 0
               THEN ObjectInsert(qualitySegments, created)
               ELSE qualitySegments
        c   == FindKey(qs1, qualityKey)
        adKey == QualityAdKey(row.ANUNCIO_NORMALIZED, row.SEGMENTACION_NORMALIZED)
        ads1 == IF FindKey(qs1[c].ads, adKey) = 0
                THEN ObjectInsert(qs1[c].ads,
                                  [key |-> adKey,
                                   ad_name |-> cleanDisplayName(row.ANUNCIO),
                                   segmentation |-> cleanDisplayName(row.SEGMENTACION),
                                   campaign |-> row.CAMPANA,
                                   ad_id |-> row.AD_ID,
                                   leads |-> 0,
                                   sales |-> 0,
                                   revenue |-> 0,
                                   spend |-> RZero,
                                   puntaje_sum |-> 0,
                                   puntaje_count |-> 0])
                ELSE qs1[c].ads
        a   == FindKey(ads1, adKey)
    IN  [qs1 EXCEPT ![c] =
            [@ EXCEPT !.total_leads = @ + leads,
                      !.total_sales = @ + sales,
                      !.total_revenue = @ + revenue,
                      !.ads = [ads1 EXCEPT ![a] =
                                  [@ EXCEPT !.leads = @ + leads,
                                            !.sales = @ + sales,
                                            !.revenue = @ + revenue,
                                            !.puntaje_sum = @ + puntaje * leads,
                                            !.puntaje_count = @ + leads]]]]

\* The spend of a segmentation under Integer division, the remainder lost.
ProportionalSpend_Floored(spend, leads, totalLeadsForAd) ==
    RInt((spend * leads) \div totalLeadsForAd)

\* spend * (leads / totalLeadsForAd)
ProportionalSpend(spend, leads, totalLeadsForAd) ==
    RMulInt(Ratio(leads, totalLeadsForAd), spend)

\* One iteration of the loop over segValues (lines 225-245): the cohorts
\* after it, and what it added to totalSpendAll.
AllocateSpend(qualitySegments, segData) ==
    LET adKey == QualityAdKey(segData.ad_name_normalized,
                              normalizeAdName(segData.segmentation_name))
        spend == segData.spend
        AdOf(c)    == FindKey(qualitySegments[c].ads, adKey)
        LeadsOf(c) == IF AdOf(c) # 0 THEN qualitySegments[c].ads[AdOf(c)].leads ELSE 0
        totalLeadsForAd == SumSeq([c \in DOMAIN qualitySegments |-> LeadsOf(c)])
        Funded(c)  == AdOf(c) # 0 /\ totalLeadsForAd > 0
        Share(c)   == ProportionalSpend(spend, LeadsOf(c), totalLeadsForAd)
    IN  [segments |->
             [c \in DOMAIN qualitySegments |->
                 IF Funded(c)
                 THEN [qualitySegments[c] EXCEPT !.ads[AdOf(c)].spend = Share(c),
                                                 !.total_spend = RAdd(@, Share(c))]
                 ELSE qualitySegments[c]],
         allocated |->
             RSumSeq([c \in DOMAIN qualitySegments |-> IF Funded(c) THEN Share(c) ELSE RZero])]

\* revenue / spend of a cohort, guarded (lines 250 and 270).
CohortRoas(total_revenue, total_spend) ==
    IF RPos(total_spend) THEN RDiv(RInt(total_revenue), total_spend) ELSE RZero

\* The body of the final loop for one cohort (lines 248-263).
FinalizeCohort(seg) ==
    LET scored == SelectSeq(seg.ads, LAMBDA ad : ad.puntaje_count > 0)
        totalPuntajeSum   == SumSeq([i \in DOMAIN scored |-> scored[i].puntaje_sum])
        totalPuntajeCount == SumSeq([i \in DOMAIN scored |-> scored[i].puntaje_count])
    IN  [seg EXCEPT
            !.conversion_rate = IF seg.total_leads > 0
                                THEN Ratio(seg.total_sales * 100, seg.total_leads)
                                ELSE RZero,
            !.roas = CohortRoas(seg.total_revenue, seg.total_spend),
            !.profit = RSub(RInt(seg.total_revenue), seg.total_spend),
            !.cpl = IF seg.total_leads > 0 /\ RPos(seg.total_spend)
                    THEN RDiv(seg.total_spend, RInt(seg.total_leads))
                    ELSE RZero,
            !.avg_puntaje = IF totalPuntajeCount > 0
                            THEN Ratio(totalPuntajeSum, totalPuntajeCount)
                            ELSE RZero]

FinalizeCohorts(qualitySegments) ==
    [c \in DOMAIN qualitySegments |-> FinalizeCohort(qualitySegments[c])]

\* The returned object, from the finalized cohorts (lines 268-282).
QualityResult(finalized, totalSpendAll, multiplyRevenue) ==
    LET totalRevenueAll == SumSeq([c \in DOMAIN finalized |-> finalized[c].total_revenue])
        segmentsArray   == SortDescByRatio(finalized,
                                           [c \in DOMAIN finalized |-> finalized[c].roas])
    IN  [summary |-> [total_revenue |-> totalRevenueAll,
                      total_spend |-> totalSpendAll,
                      total_roas |-> CohortRoas(totalRevenueAll, totalSpendAll),
                      multiply_revenue |-> multiplyRevenue],
         segments |-> segmentsArray,
         factor_analysis |-> analyzeFactors(segmentsArray, RoasThreshold)]

(***************************************************************************)
(* Date and country views of processDashboardData                          *)
(***************************************************************************)
\* Ads listed per registration date.
MAX_ADS_PER_DATE == 20

SinAnuncio == <<"S", "i", "n", " ", "a", "n", "u", "n", "c", "i", "o">>

SinSegmentacion ==
    <<"S", "i", "n", " ", "s", "e", "g", "m", "e", "n", "t", "a", "c", "i", "o_acute", "n">>

\* One iteration of the loop over adsRows of getSalesByRegistrationDate:
\* the entry pushed to adsByDate[dateStr].
DateAdEntry(r, segmentationsData, spendByDate) ==
    LET spendKey == <<normalizeAdName(r.anuncio), normalizeAdName(r.segmentacion)>>
        k        == FindKey(segmentationsData, spendKey)
        gasto    == IF <<r.fecha_reg, spendKey>> \in DOMAIN spendByDate
                    THEN spendByDate[<<r.fecha_reg, spendKey>>]
                    ELSE IF k # 0 THEN segmentationsData[k].spend ELSE 0
    IN  [date |-> r.fecha_reg,
         anuncio |-> IF cleanDisplayName(r.anuncio) # <<>>
                     THEN cleanDisplayName(r.anuncio) ELSE SinAnuncio,
         segmentacion |-> IF cleanDisplayName(r.segmentacion) # <<>>
                          THEN cleanDisplayName(r.segmentacion) ELSE SinSegmentacion,
         leads |-> r.leads,
         sales |-> r.sales,
         revenue |-> r.revenue,
         gasto |-> gasto,
         roas |-> Roas(r.revenue, gasto)]

\* mainData.map(...): every date with the spend of its ads, its cost per
\* lead and its first MAX_ADS_PER_DATE ads.
DateRows(mainData, adsByDate) ==
    [i \in DOMAIN mainData |->
        LET allAds == SelectSeq(adsByDate, LAMBDA a : a.date = mainData[i].date)
            gasto  == SumSeq([j \in DOMAIN allAds |-> allAds[j].gasto])
        IN  [date |-> mainData[i].date,
             leads |-> mainData[i].leads,
             sales |-> mainData[i].sales,
             revenue |-> mainData[i].revenue,
             gasto |-> gasto,
             cpl |-> IF mainData[i].leads > 0 THEN Ratio(gasto, mainData[i].leads) ELSE RZero,
             ads |-> SubSeq(allAds, 1, IF Len(allAds) < MAX_ADS_PER_DATE
                                       THEN Len(allAds) ELSE MAX_ADS_PER_DATE)]]

\* One iteration of the loop over facetResult.ads of
\* getSalesByRegistrationDateFromMongo: the placeholder replaces an empty
\* name before the key is built; spendByAdSeg holds the totals of the
\* documents that are not daily.
MongoDateAdEntry(doc, spendByAdSeg, spendByDate) ==
    LET anuncio      == IF doc.anuncio # <<>> THEN doc.anuncio ELSE SinAnuncio
        segmentacion == IF doc.segmentacion # <<>> THEN doc.segmentacion
                        ELSE SinSegmentacion
        adSegKey     == <<normalizeAdName(anuncio), normalizeAdName(segmentacion)>>
        k            == FindKey(spendByAdSeg, adSegKey)
        gasto        == IF <<doc.fecha_reg, adSegKey>> \in DOMAIN spendByDate
                        THEN spendByDate[<<doc.fecha_reg, adSegKey>>]
                        ELSE IF k # 0 THEN spendByAdSeg[k].spend ELSE 0
    IN  [date |-> doc.fecha_reg,
         anuncio |-> cleanDisplayName(anuncio),
         segmentacion |-> cleanDisplayName(segmentacion),
         leads |-> doc.leads,
         sales |-> doc.sales,
         revenue |-> doc.revenue,
         gasto |-> gasto,
         roas |-> Roas(doc.revenue, gasto)]

\* The rows returned by getSalesByRegistrationDateFromMongo: every ad of the
\* date is kept.
MongoDateRows(mainData, adsByDate) ==
    [i \in DOMAIN mainData |->
        LET ads   == SelectSeq(adsByDate, LAMBDA a : a.date = mainData[i].date)
            gasto == SumSeq([j \in DOMAIN ads |-> ads[j].gasto])
        IN  [date |-> mainData[i].date,
             leads |-> mainData[i].leads,
             sales |-> mainData[i].sales,
             revenue |-> mainData[i].revenue,
             gasto |-> gasto,
             cpl |-> IF mainData[i].leads > 0 THEN Ratio(gasto, mainData[i].leads) ELSE RZero,
             ads |-> ads]]

\* new Set([...]): the elements in order of first appearance.
RECURSIVE Unique(_)
Unique(s) ==
    IF s = <<>> THEN <<>>
    ELSE LET u == Unique(DropLast(s, 1))
         IN  IF s[Len(s)] \in Range(u) THEN u ELSE Append(u, s[Len(s)])

\* Array.from(allCountries): the keys of spendByCountry, then the countries
\* of salesByCountry (none when the query returned null).
AllCountries(spendByCountry, salesByCountry) ==
    Unique([i \in DOMAIN spendByCountry |-> spendByCountry[i].key]
           \o [i \in DOMAIN salesByCountry |-> salesByCountry[i].country])

\* The callback of countryData = Array.from(allCountries).map(...).
CountryEntry(country, spendByCountry, salesByCountry) ==
    LET g     == FindKey(spendByCountry, country)
        gasto == IF g # 0 THEN spendByCountry[g].gasto ELSE 0
        s     == FirstIndex(salesByCountry, LAMBDA r : r.country = country)
        ventas_trackeadas == IF s # 0 THEN salesByCountry[s].tracked_sales ELSE 0
        ventas_organicas  == IF s # 0 THEN salesByCountry[s].organic_sales ELSE 0
    IN  [country |-> country,
         gasto |-> gasto,
         roas |-> Roas(ventas_trackeadas, gasto),
         ventas_organicas |-> ventas_organicas,
         ventas_trackeadas |-> ventas_trackeadas]

\* countryData after countryData.sort((a, b) => b.gasto - a.gasto).
CountryData(spendByCountry, salesByCountry) ==
    LET allCountries == AllCountries(spendByCountry, salesByCountry)
        entries == [i \in DOMAIN allCountries |->
                       CountryEntry(allCountries[i], spendByCountry, salesByCountry)]
    IN  SortDescBy(entries, [i \in DOMAIN entries |-> entries[i].gasto])

(***************************************************************************)
(* Traffic type of a campaign: getSpendByTrafficType                       *)
(***************************************************************************)
LowerToUpper ==
    [c \in {"c", "e", "f", "g", "i", "n", "p", "q", "r"} |->
        CASE c = "c" -> "C" [] c = "e" -> "E" [] c = "f" -> "F" [] c = "g" -> "G"
          [] c = "i" -> "I" [] c = "n" -> "N" [] c = "p" -> "P" [] c = "q" -> "Q"
          [] c = "r" -> "R"]

\* String(x).toUpperCase()
ToUpperCase(s) ==
    [i \in DOMAIN s |-> IF s[i] \in DOMAIN LowerToUpper THEN LowerToUpper[s[i]] ELSE s[i]]

\* s.includes(sub)
Includes(s, sub) ==
    \E i \in 1..(Len(s) - Len(sub) + 1) : SubSeq(s, i, i + Len(sub) - 1) = sub

\* The bucket of a campaign name compared as written, without upper-casing.
TrafficType_CaseSensitive(campaign_name) ==
    IF Includes(campaign_name, <<"P", "Q">>) THEN "caliente"
    ELSE IF Includes(campaign_name, <<"P", "F">>) THEN "frio"
    ELSE "otro"

\* Lines 276-281 (and 335-336): the bucket of a campaign name; a missing
\* campaign_name is the empty string.
TrafficType(campaign_name) ==
    IF Includes(ToUpperCase(campaign_name), <<"P", "Q">>) THEN "caliente"
    ELSE IF Includes(ToUpperCase(campaign_name), <<"P", "F">>) THEN "frio"
    ELSE "otro"

\* getSpendByTrafficType: the loop over Object.values(segmentationsData).
RECURSIVE getSpendByTrafficType(_)
getSpendByTrafficType(segs) ==
    IF segs = <<>> THEN [frio |-> 0, caliente |-> 0, otro |-> 0]
    ELSE LET Add(result, seg) ==
                 [result EXCEPT ![TrafficType(seg.campaign_name)] = @ + seg.spend]
         IN  Add(getSpendByTrafficType(DropLast(segs, 1)), segs[Len(segs)])

(***************************************************************************)
(* Revenue Aggregator: getRevenueData, aggregateAdsFromMongo               *)
(***************************************************************************)
\* multiplyRevenue ? 2 : 1
RevenueMult(multiply) == IF multiply THEN 2 ELSE 1

\* The amounts of the tracked sales joined to one lead.
SalesOfLead(sales, lead) ==
    SelectSeq(sales, LAMBDA v : v.cliente_id = lead)

\* getRevenueData, the total_revenue column of one group:
\* COALESCE(SUM(CAST(v.monto AS DECIMAL(10, 2))) * 2, 0) over the joined rows.
SqlTotalRevenue(sales, multiply) ==
    SumSeq([i \in DOMAIN sales |-> sales[i].monto]) * RevenueMult(multiply)

\* aggregateAdsFromMongo, the $lookup sub-pipeline of one lead:
\* rev = $sum of $multiply [monto, multiplyRevenue ? 2 : 1]; 0 without sales.
SalesAggRev(sales, lead, multiply) ==
    SumSeq([i \in DOMAIN SalesOfLead(sales, lead) |->
               SalesOfLead(sales, lead)[i].monto * RevenueMult(multiply)])

\* The $group stage: total_revenue = $sum of the leads' total_revenue.
MongoTotalRevenue(sales, leads, multiply) ==
    SumSeq([l \in 1..leads |-> SalesAggRev(sales, l, multiply)])

\* revenue of the pushed row in the aggregation module of the unnamed
\* sources: doc.total_revenue.
MongoRowRevenue(sales, leads, multiply) == MongoTotalRevenue(sales, leads, multiply)

\* revenue of the pushed row in src/lib/mongoAggregations.ts:
\* doc.total_revenue * revenueMult.
MongoLibRowRevenue(sales, leads, multiply) ==
    MongoTotalRevenue(sales, leads, multiply) * RevenueMult(multiply)

(***************************************************************************)
(* Inputs of a run of processDashboardData                                 *)
(***************************************************************************)
\* Rows of input (spend CSV rows plus grouped revenue rows) a run reads.
MaxRows == 4

AdX == <<"A", "d", "X">>
Bee == <<"B", "e", "e">>
SegA == <<"S", "e", "g", "A">>
SegB == <<"S", "e", "g", "B">>
SegC == <<"S", "e", "g", "C">>
\* A name that ends in two media extensions.
SegD == <<"S", "e", "g", "D", ".", "m", "p", "4", ".", "m", "o", "v">>
CampPQ == <<"P", "Q", "_", "1">>
CampPF == <<"P", "F", "_", "1">>
Id7 == <<"7">>
NoId == <<>>

\* Rows of the spend report: amounts in mills (5006 = 5.006).  The first has
\* a media extension in the ad name; the second and third carry the same
\* platform ad-id under different ad names; the fourth is an ad called
\* "Organica"; the ad set of the fifth ends in two media extensions.
CsvAdXSegA ==
    [campaign |-> CampPQ, adset |-> SegA, ad |-> AdX \o <<".", "m", "p", "4">>,
     ad_id |-> NoId, amount |-> 10000]

CsvAdXSegB ==
    [campaign |-> CampPQ, adset |-> SegB, ad |-> AdX, ad_id |-> Id7, amount |-> 10000]

CsvBeeSegC ==
    [campaign |-> CampPF, adset |-> SegC, ad |-> Bee, ad_id |-> Id7, amount |-> 5006]

CsvOrganica ==
    [campaign |-> CampPF, adset |-> SegA, ad |-> OrganicaDisplay, ad_id |-> NoId,
     amount |-> 2000]

CsvBeeSegD ==
    [campaign |-> CampPF, adset |-> SegD, ad |-> Bee, ad_id |-> NoId, amount |-> 4000]

\* An ad whose name holds no letter, digit, dash or underscore.
CsvUnnamed ==
    [campaign |-> CampPQ, adset |-> SegA, ad |-> <<"!">>, ad_id |-> NoId, amount |-> 3000]

CsvRows == {CsvAdXSegA, CsvAdXSegB, CsvBeeSegC, CsvOrganica, CsvBeeSegD, CsvUnnamed}

\* An ad set whose name holds no letter, digit, dash or underscore.
CsvAdXUnnamedSet ==
    [campaign |-> CampPQ, adset |-> <<"!">>, ad |-> AdX, ad_id |-> NoId, amount |-> 3000]

\* Grouped rows of getRevenueData (GROUP BY ad, segmentation, campaign, ad-id):
\* every group holds at least one lead, revenue is a sum of DECIMAL(10,2).
\* The first two differ in the campaign only; the AD_ID of the third is the
\* ' ' the query selects when the table has no AD_ID column.
RevenueRows ==
    { [ANUNCIO |-> AdX, SEGMENTACION |-> SegA, CAMPANA |-> CampPQ, AD_ID |-> NoId,
       total_leads |-> 50, total_sales |-> 5, total_revenue |-> 30000],
      [ANUNCIO |-> AdX, SEGMENTACION |-> SegA, CAMPANA |-> CampPF, AD_ID |-> NoId,
       total_leads |-> 50, total_sales |-> 5, total_revenue |-> 30000],
      [ANUNCIO |-> AdX, SEGMENTACION |-> SegB, CAMPANA |-> CampPQ, AD_ID |-> <<" ">>,
       total_leads |-> 3, total_sales |-> 0, total_revenue |-> 0],
      [ANUNCIO |-> Bee, SEGMENTACION |-> SegC, CAMPANA |-> CampPF, AD_ID |-> Id7,
       total_leads |-> 4, total_sales |-> 1, total_revenue |-> 7000],
      [ANUNCIO |-> Bee, SEGMENTACION |-> SegD, CAMPANA |-> CampPF, AD_ID |-> NoId,
       total_leads |-> 10, total_sales |-> 2, total_revenue |-> 9000] }

\* getOrganicSales: <<>> when the query failed (null), else its one row.
OrganicResults ==
    { <<>>,
      <<[total_sales |-> 0, total_revenue |-> 0]>>,
      <<[total_sales |-> 2, total_revenue |-> 50000]>> }

(***************************************************************************)
(* Inputs of buildQualityAnalysis                                          *)
(***************************************************************************)
\* Grouped quality rows a call reads.
MaxQualityRows == 2

QualityRowOf(qlead, proposito, ad, seg, leads, sales, revenue, puntaje) ==
    [QLEAD |-> qlead, INGRESOS |-> <<"H", "i">>, ESTUDIOS |-> <<>>,
     OCUPACION |-> <<"E", "m", "p">>, PROPOSITO |-> proposito,
     EDAD_ESPECIFICA |-> <<"2", "5">>, PUNTAJE |-> puntaje,
     ANUNCIO |-> ad, SEGMENTACION |-> seg, CAMPANA |-> CampPQ, AD_ID |-> NoId,
     total_leads |-> leads, total_sales |-> sales, total_revenue |-> revenue]

\* Two cohorts (A, B) share the ad adx|sega with 1 and 2 leads; the blank
\* QLEAD of the third falls under 'Sin Clasificar'; the fourth has the
\* cohort attributes of the first with another PROPOSITO; the last counts
\* no lead.
QualityRows ==
    { QualityRowOf(<<"A">>, <<"P", "1">>, AdX, SegA, 1, 1, 30000, 8),
      QualityRowOf(<<"B">>, <<"P", "1">>, AdX, SegA, 2, 0, 0, 0),
      QualityRowOf(<<" ">>, <<"P", "1">>, Bee, SegC, 3, 1, 7000, 5),
      QualityRowOf(<<"A">>, <<"P", "2">>, AdX, SegB, 2, 1, 9000, 6),
      QualityRowOf(<<"B">>, <<"P", "1">>, AdX, SegB, 0, 0, 0, 0) }

\* The segmentations processSpendCSV builds from a list of report rows.
RECURSIVE SpendMapOf(_)
SpendMapOf(rows) ==
    IF rows = <<>> THEN <<>>
    ELSE ProcessCsvRow(SpendMapOf(DropLast(rows, 1)), <<>>, rows[Len(rows)], 0).segmentations

SpendMaps ==
    { SpendMapOf(<<>>),
      SpendMapOf(<<CsvAdXSegA>>),
      SpendMapOf(<<CsvAdXSegA, CsvAdXSegB, CsvBeeSegC>>),
      SpendMapOf(<<CsvAdXSegA, CsvAdXUnnamedSet>>) }

(***************************************************************************)
(* Inputs of analyzeFactors                                                *)
(***************************************************************************)
\* Segments a call of analyzeFactors is given.
MaxFactorSegments == 2

\* Segments with a roas at the threshold (good) or just below it (bad).
FactorSegments ==
    { [qlead |-> q, ingresos |-> <<"H", "i">>, estudios |-> NoEspecificado,
       ocupacion |-> <<"E", "m", "p">>, proposito |-> <<"P", "1">>,
       edad_especifica |-> <<"2", "5">>, roas |-> r, total_leads |-> n] :
         q \in {<<"A">>, <<"B">>}, r \in {Ratio(3, 2), Ratio(149, 100)}, n \in {2, 3, 7} }

(***************************************************************************)
(* Inputs of the date and country views                                    *)
(***************************************************************************)
\* Rows of the per-date per-ad query a call reads.
MaxViewRows == 2

Day1 == <<"d", "1">>
Day2 == <<"d", "2">>
Colombia == <<"C", "O">>
Mexico == <<"M", "X">>

AdxSega == <<normalizeAdName(AdX), normalizeAdName(SegA)>>

\* spendByDate: no daily spend, a daily spend, a daily spend of 0.
SpendByDateMaps ==
    { <<>>, (<<Day1, AdxSega>> :> 2500), (<<Day1, AdxSega>> :> 0) }

DateAdRows ==
    { [fecha_reg |-> Day1, anuncio |-> AdX, segmentacion |-> SegA,
       leads |-> 5, sales |-> 1, revenue |-> 7000],
      [fecha_reg |-> Day2, anuncio |-> AdX, segmentacion |-> SegA,
       leads |-> 2, sales |-> 1, revenue |-> 3000],
      [fecha_reg |-> Day1, anuncio |-> Bee, segmentacion |-> SegC,
       leads |-> 1, sales |-> 0, revenue |-> 0],
      [fecha_reg |-> Day2, anuncio |-> AdX, segmentacion |-> <<>>,
       leads |-> 3, sales |-> 0, revenue |-> 0] }

MainData ==
    << [date |-> Day1, leads |-> 6, sales |-> 1, revenue |-> 7000],
       [date |-> Day2, leads |-> 2, sales |-> 1, revenue |-> 3000] >>

\* processCountryCSV's byCountry: no row, a spend, a spend of 0.
SpendByCountryMaps ==
    { <<>>, <<[key |-> Colombia, gasto |-> 5000]>>, <<[key |-> Colombia, gasto |-> 0]>> }

\* getSalesByCountry: <<>> when it returned null or no row.
SalesByCountryResults ==
    { <<>>,
      <<[country |-> Colombia, tracked_sales |-> 3, organic_sales |-> 1]>>,
      <<[country |-> Mexico, tracked_sales |-> 2, organic_sales |-> 0],
        [country |-> Colombia, tracked_sales |-> 3, organic_sales |-> 0]>> }

(***************************************************************************)
(* Inputs of getSpendByTrafficType                                         *)
(***************************************************************************)
MaxTrafficSegments == 2

\* Campaign names: upper case, lower case, mixed, both markers, none, and
\* a segmentation without campaign_name.
CampaignNames ==
    {<<"P", "Q", "_", "1">>, <<"p", "q", "_", "1">>, <<"P", "F", "_", "1">>,
     <<"n", "P", "f">>, <<"p", "f", "_", "P", "Q">>, <<"G", "e", "n", "e", "r", "i", "c">>,
     <<"P", "_", "Q">>, <<>>}

\* The spend of a segmentation; 0 stands for a missing spend (spend ?? 0).
TrafficSegments == [campaign_name : CampaignNames, spend : {0, 1000, 2506}]

(***************************************************************************)
(* Inputs of the name normalizer                                           *)
(***************************************************************************)
MaxNameFragments == 3

\* A name is built from these pieces; the empty name stands for every
\* falsy input (null, undefined, '').
NameFragments ==
    {<<"A", "d">>, <<"a_acute">>, <<"-">>, <<" ">>, <<"!">>, <<"=">>,
     <<"{", "{">>, <<"}", "}">>, Undefined, AdsetPlaceholder, UtmPrefix,
     <<".", "m", "p", "4">>, <<".", "M", "P", "4">>, <<".", "j", "p", "g">>}

(***************************************************************************)
(* Inputs of the Revenue Aggregator                                        *)
(***************************************************************************)
MaxSales == 3

\* The leads of one (ad, segmentation, campaign) group.
GroupLeads == 2

\* Tracked sales of the group's leads, amounts in mills (DECIMAL(10, 2)).
TrackedSales == [cliente_id : 1..GroupLeads, monto : {1000, 2550}]

(***************************************************************************)
(* The store behind processDashboardData and the column probes             *)
(***************************************************************************)
\* Statements the server action sends to the store.
ShowColumns(tableName, columnName) == <<"SHOW COLUMNS", tableName, columnName>>

Select(queryName) == <<"SELECT", queryName>>

\* What the store does with the probe of one column: store.columns[t] is
\* the set of columns of table t, store.failing the statements it rejects.
ProbeOutcome(store, tableName, columnName) ==
    IF ShowColumns(tableName, columnName) \in store.failing THEN "failed"
    ELSE IF columnName \in store.columns[tableName] THEN "present"
    ELSE "absent"

\* Lines 18-27: rows.length > 0, and false from the catch block.
columnExists(store, tableName, columnName) ==
    LET Reported(outcome) == IF outcome = "failed" THEN FALSE ELSE outcome = "present"
    IN  Reported(ProbeOutcome(store, tableName, columnName))

\* The candidate loop of getDateColumn, getCountryColumn and
\* getCampaignColumn: the first candidate that columnExists reports, else
\* null (<<>>); issued holds the probes sent.
RECURSIVE ProbeCandidates(_, _, _)
ProbeCandidates(store, tableName, candidates) ==
    IF candidates = <<>> THEN [col |-> <<>>, issued |-> {}]
    ELSE LET Sent(found) ==
                 [found EXCEPT !.issued =
                      @ \cup {ShowColumns(tableName, Head(candidates))}]
         IN  IF columnExists(store, tableName, Head(candidates))
             THEN Sent([col |-> <<Head(candidates)>>, issued |-> {}])
             ELSE Sent(ProbeCandidates(store, tableName, Tail(candidates)))

regDateCandidates ==
    <<"FECHA_REGISTRO", "FECHA", "FECHA_CAPTACION", "FECHA_REGISTO", "fecha_registro",
      "created_at">>

saleDateCandidates ==
    <<"FECHA", "FECHA_VENTA", "fecha", "fecha_venta", "created_at", "purchase_date">>

\* "PAIS_acute" and "CAMPANA_tilde" stand for the accented spellings.
CountryCandidates == <<"PAIS", "COUNTRY", "PAIS_acute", "Pais", "Country">>

CampaignCandidates == <<"CAMPANA_tilde", "CAMPANA", "CAMPAIGN", "Campaign">>

getDateColumn(store, tableName, candidates) == ProbeCandidates(store, tableName, candidates)

getCountryColumn(store, baseTable) == ProbeCandidates(store, baseTable, CountryCandidates)

getCampaignColumn(store, baseTable) == ProbeCandidates(store, baseTable, CampaignCandidates)

\* How a call of an async function ends: it returns value (<<>> is null,
\* <<v>> the value v) or throws; issued are the statements it sent.
Returns(value, issued) == [threw |-> FALSE, value |-> value, issued |-> issued]

Throws(issued) == [threw |-> TRUE, value |-> <<>>, issued |-> issued]

\* pool.query inside try/catch: null when the store rejects the statement.
Caught(store, queryName, rows, issued) ==
    IF Select(queryName) \in store.failing
    THEN Returns(<<>>, issued \cup {Select(queryName)})
    ELSE Returns(<<rows>>, issued \cup {Select(queryName)})

\* The result set of a query whose rows the ledger does not read.
ResultSet(queryName) == <<queryName>>

\* The probes of a list of columns, one columnExists call each.
ProbesOf(tableName, columns) == {ShowColumns(tableName, columns[i]) : i \in DOMAIN columns}

\* Lines 29-65 with the catch block rethrowing.
getRevenueData_Rethrow(store, baseTable) ==
    IF Select("revenue") \in store.failing
    THEN Throws({ShowColumns(baseTable, "AD_ID"), Select("revenue")})
    ELSE Returns(<<store.revenue>>, {ShowColumns(baseTable, "AD_ID"), Select("revenue")})

\* Lines 29-65: without an AD_ID column the query selects ' ' AS AD_ID.
getRevenueData(store, baseTable) ==
    LET Selected(hasAdId) ==
            [i \in DOMAIN store.revenue |->
                 IF hasAdId THEN store.revenue[i]
                 ELSE [store.revenue[i] EXCEPT !.AD_ID = <<" ">>]]
    IN  Caught(store, "revenue", Selected(columnExists(store, baseTable, "AD_ID")),
               {ShowColumns(baseTable, "AD_ID")})

\* Lines 450-466: rows[0] || null.
getOrganicSales(store) == Caught(store, "organic", store.organic, {})

QualityColumns ==
    <<"AD_ID", "QLEAD", "INGRESOS", "ESTUDIOS", "OCUPACION", "PROPOSITO",
      "EDAD_ESPECIFICA", "PUNTAJE">>

\* Lines 468-522.
getQualityLeadData(store, baseTable) ==
    Caught(store, "quality", ResultSet("quality"), ProbesOf(baseTable, QualityColumns))

\* Lines 74-110.
getPurchasesByDaysSinceRegistration(store, baseTable, salesTable) ==
    LET Joined(regCol, saleCol) ==
            IF regCol.col = <<>> \/ saleCol.col = <<>>
            THEN Returns(<<>>, regCol.issued \cup saleCol.issued)
            ELSE Caught(store, "days", ResultSet("days"),
                        regCol.issued \cup saleCol.issued)
    IN  Joined(getDateColumn(store, baseTable, regDateCandidates),
               getDateColumn(store, salesTable, saleDateCandidates))

\* Lines 113-207: the per-date query, then (when the table has both ANUNCIO
\* and SEGMENTACION) the per-ad query, in one try block.
getSalesByRegistrationDate(store, baseTable) ==
    LET Queried(issued, hasAds) ==
            IF Select("registration") \in store.failing THEN Returns(<<>>, issued)
            ELSE IF ~hasAds THEN Returns(<<ResultSet("registration")>>, issued)
            ELSE Caught(store, "registrationAds", ResultSet("registrationAds"), issued)
        Dated(regCol) ==
            IF regCol.col = <<>> THEN Returns(<<>>, regCol.issued)
            ELSE Queried(regCol.issued
                         \cup ProbesOf(baseTable, <<"ANUNCIO", "SEGMENTACION">>)
                         \cup {Select("registration")},
                         columnExists(store, baseTable, "ANUNCIO")
                         /\ columnExists(store, baseTable, "SEGMENTACION"))
    IN  Dated(getDateColumn(store, baseTable, regDateCandidates))

\* Lines 226-270.
getTrafficTypeSummary(store, baseTable) ==
    LET Grouped(campaignCol) ==
            IF campaignCol.col = <<>> THEN Returns(<<>>, campaignCol.issued)
            ELSE Caught(store, "traffic", ResultSet("traffic"), campaignCol.issued)
    IN  Grouped(getCampaignColumn(store, baseTable))

\* Lines 285-369.
getSalesByRegistrationDateByTrafficType(store, baseTable) ==
    LET Grouped(campaignCol, regCol) ==
            IF campaignCol.col = <<>> \/ regCol.col = <<>>
            THEN Returns(<<>>, campaignCol.issued \cup regCol.issued)
            ELSE Caught(store, "trafficByDate", ResultSet("trafficByDate"),
                        campaignCol.issued \cup regCol.issued)
    IN  Grouped(getCampaignColumn(store, baseTable),
                getDateColumn(store, baseTable, regDateCandidates))

\* Lines 372-400.
getSalesByCountry(store, baseTable) ==
    LET Grouped(countryCol) ==
            IF countryCol.col = <<>> THEN Returns(<<>>, countryCol.issued)
            ELSE Caught(store, "country", store.country, countryCol.issued)
    IN  Grouped(getCountryColumn(store, baseTable))

\* Lines 403-447.
getSalesByRegistrationDateByCountry(store, baseTable) ==
    LET Grouped(regCol, countryCol) ==
            IF regCol.col = <<>> \/ countryCol.col = <<>>
            THEN Returns(<<>>, regCol.issued \cup countryCol.issued)
            ELSE Caught(store, "countryByDate", ResultSet("countryByDate"),
                        regCol.issued \cup countryCol.issued)
    IN  Grouped(getDateColumn(store, baseTable, regDateCandidates),
                getCountryColumn(store, baseTable))

(***************************************************************************)
(* processDashboardData: validation, ledger and returned object            *)
(***************************************************************************)
\* processSpendCSV on the rows of a report (exchange_rate 0).
RECURSIVE processSpendCSV(_)
processSpendCSV(rows) ==
    IF rows = <<>> THEN [segmentations |-> <<>>, mapping |-> <<>>]
    ELSE LET Step(sofar) ==
                 ProcessCsvRow(sofar.segmentations, sofar.mapping, rows[Len(rows)], 0)
         IN  Step(processSpendCSV(DropLast(rows, 1)))

TablesRequired == "Debes seleccionar tanto la tabla base como la tabla de ventas."

CsvRequired == "CSV es requerido"

NoSpendData == "No se pudieron procesar los datos de gastos del archivo CSV."

\* Lines 546-563 without the check of lines 561-563.
Validation_AnySegmentations(formData) ==
    IF formData.base_table = "" \/ formData.sales_table = "" THEN <<TablesRequired>>
    ELSE IF formData.spend_report = <<>> THEN <<CsvRequired>>
    ELSE IF formData.spend_report[1].size = 0 THEN <<CsvRequired>>
    ELSE <<>>

\* Lines 546-563: the error processDashboardData throws before it reads
\* the store, <<>> when the form passes.
Validation(formData) ==
    IF formData.base_table = "" \/ formData.sales_table = "" THEN <<TablesRequired>>
    ELSE IF formData.spend_report = <<>> THEN <<CsvRequired>>
    ELSE IF formData.spend_report[1].size = 0 THEN <<CsvRequired>>
    ELSE IF processSpendCSV(formData.spend_report[1].rows).segmentations = <<>>
         THEN <<NoSpendData>>
    ELSE <<>>

\* Lines 596-659: the loop over revenueData.
RECURSIVE RevenueLoop(_, _, _)
RevenueLoop(ads, mapping, revenueData) ==
    IF revenueData = <<>> THEN ads
    ELSE RevenueLoop(RevenueRowStep(ads, mapping, Head(revenueData)), mapping,
                     Tail(revenueData))

\* Lines 662-728: the loop over the spend segmentations.
RECURSIVE SpendLoop(_, _)
SpendLoop(ads, segs) ==
    IF segs = <<>> THEN ads
    ELSE SpendLoop(SpendStep(ads, Head(segs)), Tail(segs))

\* Lines 568-762: the ledger from the spend report and what the revenue
\* and organic queries returned (<<>> is null).
BuildInteractiveData(spendResult, revenueData, organicSalesData) ==
    LET WithRevenue(ads) ==
            IF revenueData # <<>>
            THEN RevenueLoop(ads, spendResult.mapping, revenueData[1])
            ELSE ads
        Totals(ads) == [ads |-> SortedAds(ads), summary |-> Summary(ads)]
        WithSpend(ads) == Totals(FinalizeAds(SpendLoop(ads, spendResult.segmentations)))
    IN  WithSpend(WithRevenue(SeedOrganicAds(organicSalesData)))

\* A view derived from a sub-query result: null stays null.
Derived(view, value) == IF value = <<>> THEN <<>> ELSE <<<<view, value[1]>>>>

\* Lines 764-917: the analyses after the ledger and the returned object.
\* calls lists the completions in call order; a call that throws ends the
\* handler.
Analyses(store, formData) ==
    LET baseTable == formData.base_table
        salesTable == formData.sales_table
        withCountry == formData.country_report # <<>>
                       /\ formData.country_report[1].size > 0
        ByTraffic(trafficTypeSummary) ==
            IF trafficTypeSummary.value # <<>>
            THEN getSalesByRegistrationDateByTrafficType(store, baseTable)
            ELSE Returns(<<>>, {})
        ByCountry(called) == IF withCountry THEN called ELSE Returns(<<>>, {})
        Collected(qualityLeadData, captationDaysData, salesByRegistrationDate,
                  trafficTypeSummary, captationByTrafficType, salesByCountry,
                  byCountryRaw) ==
            [issued |-> qualityLeadData.issued \cup captationDaysData.issued
                        \cup salesByRegistrationDate.issued
                        \cup trafficTypeSummary.issued
                        \cup captationByTrafficType.issued
                        \cup salesByCountry.issued \cup byCountryRaw.issued,
             threw |-> qualityLeadData.threw \/ captationDaysData.threw
                       \/ salesByRegistrationDate.threw \/ trafficTypeSummary.threw
                       \/ captationByTrafficType.threw \/ salesByCountry.threw
                       \/ byCountryRaw.threw,
             qualityData |-> Derived("buildQualityAnalysis", qualityLeadData.value),
             countryData |->
                 IF withCountry
                 THEN <<CountryData(formData.country_report[1].byCountry,
                                    IF salesByCountry.value # <<>>
                                    THEN salesByCountry.value[1] ELSE <<>>)>>
                 ELSE <<>>,
             captationDaysData |-> captationDaysData.value,
             salesByRegistrationDate |-> salesByRegistrationDate.value,
             salesByRegistrationDateByCountry |-> byCountryRaw.value,
             captationByAnuncio |->
                 Derived("captationByAnuncio", salesByRegistrationDate.value),
             captationByPais |-> Derived("captationByPais", byCountryRaw.value),
             trafficTypeSummary |-> trafficTypeSummary.value,
             captationByTrafficType |-> captationByTrafficType.value]
        Called(trafficTypeSummary) ==
            Collected(getQualityLeadData(store, baseTable),
                      getPurchasesByDaysSinceRegistration(store, baseTable, salesTable),
                      getSalesByRegistrationDate(store, baseTable),
                      trafficTypeSummary,
                      ByTraffic(trafficTypeSummary),
                      ByCountry(getSalesByCountry(store, baseTable)),
                      ByCountry(getSalesByRegistrationDateByCountry(store, baseTable)))
    IN  Called(getTrafficTypeSummary(store, baseTable))

(***************************************************************************)
(* Inputs of a request to processDashboardData                             *)
(***************************************************************************)
\* A row of the spend report without a campaign name: processSpendCSV
\* skips it.
CsvBlank ==
    [campaign |-> <<>>, adset |-> SegA, ad |-> AdX, ad_id |-> NoId, amount |-> 1000]

\* formData.get('spend_report'): no file, an empty file, a header line
\* only, a file of skipped rows, a report.
SpendReports ==
    { <<>>,
      <<[size |-> 0, rows |-> <<>>]>>,
      <<[size |-> 40, rows |-> <<>>]>>,
      <<[size |-> 60, rows |-> <<CsvBlank>>]>>,
      <<[size |-> 90, rows |-> <<CsvAdXSegA, CsvBeeSegC>>]>> }

\* formData.get('country_report') with the byCountry map of processCountryCSV.
CountryReports ==
    { <<>>,
      <<[size |-> 0, byCountry |-> <<>>]>>,
      <<[size |-> 50, byCountry |-> <<[key |-> Colombia, gasto |-> 5000]>>]>> }

Forms ==
    [base_table : {"", "leads"}, sales_table : {"", "ventas"},
     spend_report : SpendReports, country_report : CountryReports]

\* Columns of the base table and of the sales table.
BaseSchemas ==
    { {"AD_ID", "ANUNCIO", "SEGMENTACION", "FECHA_REGISTRO", "PAIS", "CAMPANA_tilde"},
      {"ANUNCIO", "created_at", "Country", "Campaign"},
      {} }

SalesSchemas == { {"FECHA"}, {} }

\* Statements the store may reject.
Failures ==
    { Select("revenue"), Select("organic"), Select("quality"), Select("days"),
      Select("registration"), Select("registrationAds"), Select("traffic"),
      Select("trafficByDate"), Select("country"), Select("countryByDate"),
      ShowColumns("leads", "AD_ID"), ShowColumns("leads", "FECHA_REGISTRO"),
      ShowColumns("ventas", "FECHA"), ShowColumns("leads", "PAIS"),
      ShowColumns("leads", "CAMPANA_tilde") }

\* Statements rejected during one request.
MaxFailures == 1

StoredRevenue ==
    << [ANUNCIO |-> AdX, SEGMENTACION |-> SegA, CAMPANA |-> CampPQ, AD_ID |-> NoId,
        total_leads |-> 50, total_sales |-> 5, total_revenue |-> 30000],
       [ANUNCIO |-> Bee, SEGMENTACION |-> SegD, CAMPANA |-> CampPF, AD_ID |-> NoId,
        total_leads |-> 10, total_sales |-> 2, total_revenue |-> 9000] >>

StoredOrganic == [total_sales |-> 2, total_revenue |-> 50000]

StoredCountry ==
    << [country |-> Mexico, tracked_sales |-> 2, organic_sales |-> 0],
       [country |-> Colombia, tracked_sales |-> 3, organic_sales |-> 0] >>

Stores ==
    { [columns |-> [leads |-> base, ventas |-> sales],
       failing |-> failing,
       revenue |-> StoredRevenue,
       organic |-> StoredOrganic,
       country |-> StoredCountry] :
          base \in BaseSchemas, sales \in SalesSchemas,
          failing \in {f \in SUBSET Failures : Cardinality(f) <= MaxFailures} }

(***************************************************************************)
(* Inputs of processSpendCSV                                               *)
(***************************************************************************)
\* Rows of results.data a call reads.
MaxReportRows == 3

\* The second spelling of the ad of CsvAdXSegA, under another campaign and
\* with a platform ad-id.
CsvAdXSegAAgain ==
    [campaign |-> CampPF, adset |-> SegA, ad |-> AdX, ad_id |-> Id7, amount |-> 2506]

\* A row padded with blanks.
CsvPadded ==
    [campaign |-> <<" ">> \o CampPQ, adset |-> SegA \o <<" ">>, ad |-> <<" ">> \o AdX,
     ad_id |-> <<" ">>, amount |-> 700]

ReportRows == {CsvAdXSegA, CsvAdXSegAAgain, CsvPadded, CsvBeeSegC, CsvBlank, CsvUnnamed}

\* exchange_rate: none, and 3 units of the report's currency per unit.
ExchangeRates == {0, 3}

(***************************************************************************)
(* Inputs of a reconciliation with platform ids and numeric ad names      *)
(***************************************************************************)
\* Rows of each input a reconciliation reads.
MaxReconcileRows == 2

\* Two segmentations of the ad AdX: SegB without a platform id, SegA with
\* the platform id 7.
RevAdXSegBNoId ==
    [ANUNCIO |-> AdX, SEGMENTACION |-> SegB, CAMPANA |-> CampPQ, AD_ID |-> NoId,
     total_leads |-> 3, total_sales |-> 1, total_revenue |-> 8000]

RevAdXSegAId7 ==
    [ANUNCIO |-> AdX, SEGMENTACION |-> SegA, CAMPANA |-> CampPQ, AD_ID |-> Id7,
     total_leads |-> 5, total_sales |-> 2, total_revenue |-> 30000]

\* An ad whose name is a number.
Ad10 == <<"1", "0">>

RevAd10 ==
    [ANUNCIO |-> Ad10, SEGMENTACION |-> SegA, CAMPANA |-> CampPF, AD_ID |-> NoId,
     total_leads |-> 4, total_sales |-> 1, total_revenue |-> 20000]

\* A second group of AdX / SegB (another campaign, other figures).
RevAdXSegBMore ==
    [ANUNCIO |-> AdX, SEGMENTACION |-> SegB, CAMPANA |-> CampPF, AD_ID |-> NoId,
     total_leads |-> 2, total_sales |-> 1, total_revenue |-> 5000]

ReconcileRevenueRows == {RevAdXSegBNoId, RevAdXSegAId7, RevAd10, RevAdXSegBMore}

\* Spend of the ad called "7", of the ad called "10", and the spend of
\* AdX / SegB under the platform id 7 (CsvAdXSegB).
CsvAd7 ==
    [campaign |-> CampPF, adset |-> SegC, ad |-> Id7, ad_id |-> NoId, amount |-> 4000]

CsvAd10 ==
    [campaign |-> CampPF, adset |-> SegA, ad |-> Ad10, ad_id |-> NoId, amount |-> 1000]

ReconcileReportRows == {CsvAdXSegB, CsvAd7, CsvAd10}

(***************************************************************************)
(* aggregateAdsFromMongo: the ledger from the staged leads and spend       *)
(***************************************************************************)
\* The spend_data documents of a report that are not daily (one per
\* segmentation of processSpendCSV), grouped by ad_name_normalized and
\* segmentation_normalized: spendMap, in cursor order.
RECURSIVE MongoSpendMap(_)
MongoSpendMap(segs) ==
    IF segs = <<>> THEN <<>>
    ELSE LET seg == segs[Len(segs)]
             key == <<seg.ad_name_normalized, normalizeAdName(seg.segmentation_name)>>
             Grouped(sofar) ==
                 IF FindKey(sofar, key) # 0
                 THEN [sofar EXCEPT ![FindKey(sofar, key)].spend = @ + seg.spend]
                 ELSE Append(sofar, [key |-> key,
                                     spend |-> seg.spend,
                                     campaign |-> seg.campaign_name,
                                     ad_id |-> seg.ad_id])
         IN  Grouped(MongoSpendMap(DropLast(segs, 1)))

\* One document of the leads pipeline: the group of the staged leads with
\* these normalized and original names, campaign and ad-id.
MongoRevenueRowOf(group) ==
    [ad |-> normalizeAdName(group.ANUNCIO),
     seg |-> normalizeAdName(group.SEGMENTACION),
     campana |-> group.CAMPANA,
     ad_id |-> group.AD_ID,
     an_orig |-> group.ANUNCIO,
     seg_orig |-> group.SEGMENTACION,
     leads |-> group.total_leads,
     sales |-> group.total_sales,
     revenue |-> group.total_revenue]

\* revenueRows: the $match keeps the leads whose normalized names are not ''.
MongoRevenueRows(groups) ==
    LET rows == [i \in DOMAIN groups |-> MongoRevenueRowOf(groups[i])]
    IN  SelectSeq(rows, LAMBDA r : r.ad # <<>> /\ r.seg # <<>>)

\* One iteration of the loop over revenueRows (lines 121-178).
MongoRevenueStep(ads, spendMap, spendMapping, r) ==
    LET k     == FindKey(spendMap, <<r.ad, r.seg>>)
        spend == IF k # 0 THEN spendMap[k].spend ELSE 0
        displayName == IF r.ad \in DOMAIN spendMapping /\ spendMapping[r.ad] # <<>>
                       THEN cleanDisplayName(spendMapping[r.ad])
                       ELSE cleanDisplayName(r.an_orig)
        ads1 == IF FindKey(ads, r.ad) = 0
                THEN ObjectInsert(ads, [key |-> r.ad,
                                        ad_name_display |-> displayName,
                                        total_revenue |-> 0,
                                        total_leads |-> 0,
                                        total_sales |-> 0,
                                        total_spend |-> 0,
                                        roas |-> RZero,
                                        profit |-> 0,
                                        segmentations |-> <<>>])
                ELSE ads
        a    == FindKey(ads1, r.ad)
        segs == ads1[a].segmentations
        Match(s) == normalizeAdName(s.name) = r.seg
        j    == FirstIndex(segs, Match)
        Found(s) ==
            LET s1 == [s EXCEPT !.revenue = @ + r.revenue,
                                !.leads = @ + r.leads,
                                !.sales = @ + r.sales,
                                !.spend_allocated = @ + spend]
            IN  [s1 EXCEPT !.profit = s1.revenue - s1.spend_allocated,
                           !.cpl = IF s1.leads > 0
                                   THEN Ratio(s1.spend_allocated, s1.leads) ELSE RZero,
                           !.conversion_rate = IF s1.leads > 0
                                               THEN Ratio(s1.sales * 100, s1.leads)
                                               ELSE RZero]
        segs1 == IF j # 0
                 THEN [segs EXCEPT ![j] = Found(@)]
                 ELSE Append(segs,
                        [name |-> cleanDisplayName(r.seg_orig),
                         campaign_name |-> IF r.campana # <<>> THEN r.campana
                                           ELSE IF k # 0 THEN spendMap[k].campaign
                                           ELSE <<>>,
                         ad_id |-> IF r.ad_id # <<>> THEN r.ad_id
                                   ELSE IF k # 0 THEN spendMap[k].ad_id ELSE <<>>,
                         revenue |-> r.revenue,
                         leads |-> r.leads,
                         sales |-> r.sales,
                         spend_allocated |-> spend,
                         profit |-> r.revenue - spend,
                         cpl |-> IF r.leads > 0 THEN Ratio(spend, r.leads) ELSE RZero,
                         conversion_rate |-> IF r.leads > 0
                                             THEN Ratio(r.sales * 100, r.leads)
                                             ELSE RZero])
    IN  [ads1 EXCEPT ![a] = [@ EXCEPT !.segmentations = segs1,
                                      !.total_revenue = @ + r.revenue,
                                      !.total_leads = @ + r.leads,
                                      !.total_sales = @ + r.sales,
                                      !.total_spend = @ + spend]]

RECURSIVE MongoRevenueLoop(_, _, _, _)
MongoRevenueLoop(ads, spendMap, spendMapping, revenueRows) ==
    IF revenueRows = <<>> THEN ads
    ELSE MongoRevenueLoop(MongoRevenueStep(ads, spendMap, spendMapping, Head(revenueRows)),
                          spendMap, spendMapping, Tail(revenueRows))

\* adData.segmentations.sort((a, b) => b.revenue - a.revenue) for every ad.
MongoSortSegmentations(ads) ==
    [a \in DOMAIN ads |->
        [ads[a] EXCEPT !.segmentations =
            SortDescBy(@, [i \in DOMAIN @ |-> @[i].revenue])]]

\* One iteration of the loop over Object.entries(spendMap) (lines 184-215).
MongoSpendStep(ads, spendMapping, info) ==
    LET adNorm  == info.key[1]
        segNorm == info.key[2]
        display == IF adNorm \in DOMAIN spendMapping /\ spendMapping[adNorm] # <<>>
                   THEN spendMapping[adNorm] ELSE adNorm
        ads1 == IF FindKey(ads, adNorm) = 0
                THEN ObjectInsert(ads, [key |-> adNorm,
                                        ad_name_display |-> cleanDisplayName(display),
                                        total_revenue |-> 0,
                                        total_leads |-> 0,
                                        total_sales |-> 0,
                                        total_spend |-> 0,
                                        roas |-> RZero,
                                        profit |-> 0,
                                        segmentations |-> <<>>])
                ELSE ads
        a == FindKey(ads1, adNorm)
        hasSeg == \E i \in DOMAIN ads1[a].segmentations :
                     normalizeAdName(ads1[a].segmentations[i].name) = segNorm
    IN  IF adNorm = <<>> THEN ads
        ELSE IF hasSeg THEN ads1
        ELSE [ads1 EXCEPT ![a] =
                 [@ EXCEPT !.segmentations =
                               Append(@, [name |-> segNorm,
                                          campaign_name |-> info.campaign,
                                          ad_id |-> info.ad_id,
                                          revenue |-> 0,
                                          leads |-> 0,
                                          sales |-> 0,
                                          spend_allocated |-> info.spend,
                                          profit |-> -info.spend,
                                          cpl |-> RZero,
                                          conversion_rate |-> RZero]),
                           !.total_spend = @ + info.spend,
                           !.profit = @ - info.spend]]

RECURSIVE MongoSpendLoop(_, _, _)
MongoSpendLoop(ads, spendMapping, spendMap) ==
    IF spendMap = <<>> THEN ads
    ELSE MongoSpendLoop(MongoSpendStep(ads, spendMapping, Head(spendMap)),
                        spendMapping, Tail(spendMap))

\* The last loop (lines 218-222): total_spend to two decimals, roas, profit.
MongoFinalizeAds(ads) ==
    [a \in DOMAIN ads |->
        LET total_spend == ToFixed2(ads[a].total_spend)
        IN  [ads[a] EXCEPT !.total_spend = total_spend,
                           !.roas = Roas(ads[a].total_revenue, total_spend),
                           !.profit = ads[a].total_revenue - total_spend]]

\* aggregateAdsFromMongo on the staged lead groups and the segmentations and
\* mapping of the stored report.
aggregateAdsFromMongo(groups, spendResult) ==
    LET Spent(ads, spendMap) ==
            MongoFinalizeAds(MongoSpendLoop(ads, spendResult.mapping, spendMap))
        Earned(spendMap) ==
            Spent(MongoSortSegmentations(
                      MongoRevenueLoop(<<>>, spendMap, spendResult.mapping,
                                       MongoRevenueRows(groups))),
                  spendMap)
    IN  Earned(MongoSpendMap(spendResult.segmentations))

\* Staged lead groups and report rows.
MaxMongoRows == 2

MongoLeadGroups == {RevAdXSegBNoId, RevAdXSegBMore, RevAd10, RevAdXSegAId7}

MongoReportRows == {CsvAdXSegB, CsvAd10, CsvUnnamed}

(***************************************************************************)
(* syncMySQLToMongo: the staged copies of the base and sales tables        *)
(***************************************************************************)
\* configId of the synchronized pair of tables, and of another pair.
SyncConfig == <<"base", "|", "sales">>

OtherConfig == <<"base2", "|", "sales2">>

\* getClienteId: the first of '#', 'cliente_id', 'CLIENTE_ID' that is set.
getClienteId(row) ==
    IF "cliente_id" \in DOMAIN row /\ Trim(row.cliente_id) # <<>> THEN row.cliente_id
    ELSE IF "CLIENTE_ID" \in DOMAIN row /\ Trim(row.CLIENTE_ID) # <<>> THEN row.CLIENTE_ID
    ELSE <<>>

\* rowToDoc: the row with its config, client and names; syncedAt stands for
\* new Date(), the number of calls started when the documents are built.
rowToDoc(row, configId, syncedAt) ==
    [row |-> row,
     config_id |-> configId,
     cliente_id |-> getClienteId(row),
     _synced_at |-> syncedAt,
     anuncio |-> Trim(row.ANUNCIO),
     segmentacion |-> Trim(row.SEGMENTACION),
     anuncio_normalized |-> normalizeAdName(row.ANUNCIO),
     segmentacion_normalized |-> normalizeAdName(row.SEGMENTACION)]

\* The document of a sales row.
SaleDoc(r, configId, syncedAt) ==
    [config_id |-> configId,
     cliente_id |-> IF "cliente_id" \in DOMAIN r THEN r.cliente_id
                    ELSE IF "CLIENTE_ID" \in DOMAIN r THEN r.CLIENTE_ID ELSE <<>>,
     monto |-> IF "monto" \in DOMAIN r THEN r.monto ELSE 0,
     _synced_at |-> syncedAt]

\* deleteMany({ config_id: configId }).
deleteMany(col, configId) == SelectSeq(col, LAMBDA doc : doc.config_id # configId)

\* insertMany(docs).
insertMany(col, docs) == col \o docs

\* The callers of syncMySQLToMongo, the calls they may start, and the tables.
SyncCallers == {1, 2}

MaxSyncCalls == 3

Lead1 == [cliente_id |-> <<"1">>, ANUNCIO |-> AdX, SEGMENTACION |-> SegA]

Lead2 == [CLIENTE_ID |-> <<"2">>, ANUNCIO |-> <<" ">> \o Bee, SEGMENTACION |-> SegC]

Sale1 == [cliente_id |-> <<"1">>, monto |-> 7000]

BaseTables == {<<>>, <<Lead1>>, <<Lead1, Lead2>>}

SalesTables == {<<>>, <<Sale1>>}

\* A document of another pair of tables in the leads collection.
OtherLeadDoc == rowToDoc(Lead2, OtherConfig, 0)

(***************************************************************************)
(* State                                                                   *)
(***************************************************************************)
VARIABLES
    pc,              \* processDashboardData: "idle", "csv", "revenue", "spend", "done", "error"
    exchangeRate,    \* formData exchange_rate
    segmentations,   \* processSpendCSV: segmentations, in insertion order
    spend_mapping,   \* processSpendCSV: normalized ad name -> first original
    ads,             \* the ledger, entries in object key order
    spendIdx,        \* position of the "Assign Spends" loop
    nIn,             \* input rows read so far
    revenueData,     \* the revenue rows fed so far, in order
    repeated,        \* the revenue row fed last had been fed before
    assigned,        \* matchingAdKey of each spend segmentation processed
    organic,         \* the organic query's result
    result,          \* the returned {ads, summary}; <<>> until done
    qpc,             \* buildQualityAnalysis: "idle", "rows", "alloc", "done", "null"
    qualityLeadData, \* the quality rows read so far
    segmentationsData, \* the spend segmentations given to buildQualityAnalysis
    multiplyRevenue, \* its multiplyRevenue argument
    qualitySegments, \* the cohorts, in object key order
    totalSpendAll,   \* running total of the allocated spend
    segIdx,          \* position of the loop over segValues
    qualityData,     \* the returned object; <<>> until done
    fpc,             \* analyzeFactors: "idle", "input", "done"
    factorSegments,  \* the segments given to analyzeFactors
    factorAnalysis,  \* the returned object; <<>> until done
    vpc,             \* the views: "idle", "dates", "country", "done", "mongoDates", "mongoDone"
    viewSegmentations, \* segmentationsData of getSalesByRegistrationDate
    spendByDate,     \* its spendByDate argument
    adsByDate,       \* the per-date per-ad entries pushed so far
    salesByRegistrationDate, \* the rows it returns; <<>> until computed
    spendByCountry,  \* processCountryCSV's byCountry
    salesByCountry,  \* getSalesByCountry's rows
    countryData,     \* the country view; <<>> until computed
    tpc,             \* getSpendByTrafficType: "idle", "input", "done"
    trafficSegments, \* the segmentations given to it
    spendByTrafficType, \* the returned buckets; <<>> until done
    npc,             \* the name normalizer: "idle", "input", "done"
    nameInput,       \* the name given to it
    nameParts,       \* the number of pieces it was built from
    nameCleaned,     \* cleanDisplayName(name)
    nameNormalized,  \* normalizeAdName(name)
    nameRenormalized, \* normalizeAdName(normalizeAdName(name))
    rpc,             \* the Revenue Aggregator: "idle", "input", "done"
    coproduction,    \* its multiplyRevenue argument
    matchedSales,    \* the tracked sales joined to the group's leads
    revenueFigures,  \* the group's revenue from each aggregator; <<>> until done
    hpc,             \* a request: "idle", "called", "validated", "ledger", "done", "thrown"
    formData,        \* the submitted form
    store,           \* the store's tables, contents and rejected statements
    issued,          \* the statements sent to the store so far
    thrown,          \* <<>>, or the error the request ended with
    hasAdId,         \* <<>>, or what the AD_ID probe of getRevenueData reported
    ledger,          \* <<>>, or the ads and summary built
    response,        \* <<>>, or the returned object
    cpc,             \* processSpendCSV: "idle", "rows", "done"
    csvRate,         \* its exchangeRate argument
    csvData,         \* results.data: the rows read so far
    csvSegmentations, \* its segmentations object, in insertion order
    csvMapping,      \* its spend_mapping object
    kpc,             \* a reconciliation: "idle", "input", "done"
    recRevenue,      \* the rows getRevenueData returned
    recReport,       \* the rows of the spend report
    recResult,       \* <<>>, or the ads and summary returned
    mpc,             \* aggregateAdsFromMongo: "idle", "input", "done"
    mongoLeadGroups, \* the groups of staged leads, in cursor order
    mongoReport,     \* the rows of the stored spend report
    mongoAds,        \* <<>>, or the ads returned
    spc,             \* syncMySQLToMongo: per call "idle", "base", "docs", "leadsDeleted", "salesDeleted", "leadsInserted"
    sourceBase,      \* the rows of the base table
    sourceSales,     \* the rows of the sales table
    syncBaseRows,    \* baseRows of each call
    syncLeadsDocs,   \* leadsDocs of each call
    syncSalesDocs,   \* salesDocs of each call
    leadsCol,        \* the documents of the leads collection
    salesCol,        \* the documents of the sales collection
    syncCalls,       \* calls started so far
    lastSync         \* <<>>, or the documents of the call that returned last

ledgerVars == <<pc, exchangeRate, segmentations, spend_mapping, ads, spendIdx, nIn,
                revenueData, repeated, assigned, organic, result>>

qualityVars == <<qpc, qualityLeadData, segmentationsData, multiplyRevenue, qualitySegments,
                 totalSpendAll, segIdx, qualityData>>

factorVars == <<fpc, factorSegments, factorAnalysis>>

viewVars == <<vpc, viewSegmentations, spendByDate, adsByDate, salesByRegistrationDate,
              spendByCountry, salesByCountry, countryData>>

trafficVars == <<tpc, trafficSegments, spendByTrafficType>>

engineVars == <<ledgerVars, qualityVars, factorVars, viewVars>>

nameVars == <<npc, nameInput, nameParts, nameCleaned, nameNormalized,
             nameRenormalized>>

aggregatorVars == <<rpc, coproduction, matchedSales, revenueFigures>>

requestVars == <<hpc, formData, store, issued, thrown, hasAdId, ledger, response>>

reportVars == <<cpc, csvRate, csvData, csvSegmentations, csvMapping>>

reconcileVars == <<kpc, recRevenue, recReport, recResult>>

mongoLedgerVars == <<mpc, mongoLeadGroups, mongoReport, mongoAds>>

syncVars == <<spc, sourceBase, sourceSales, syncBaseRows, syncLeadsDocs, syncSalesDocs, leadsCol, salesCol, syncCalls, lastSync>>

libVars == <<trafficVars, nameVars, aggregatorVars, requestVars, reportVars, reconcileVars, mongoLedgerVars, syncVars>>

outsideTraffic == <<engineVars, nameVars, aggregatorVars, requestVars, reportVars, reconcileVars, mongoLedgerVars, syncVars>>

outsideNames == <<engineVars, trafficVars, aggregatorVars, requestVars, reportVars, reconcileVars, mongoLedgerVars, syncVars>>

outsideAggregator == <<engineVars, trafficVars, nameVars, requestVars, reportVars, reconcileVars, mongoLedgerVars, syncVars>>

outsideRequest == <<engineVars, trafficVars, nameVars, aggregatorVars, reportVars, reconcileVars, mongoLedgerVars, syncVars>>

outsideReport == <<engineVars, trafficVars, nameVars, aggregatorVars, requestVars, reconcileVars, mongoLedgerVars, syncVars>>

outsideReconcile == <<engineVars, trafficVars, nameVars, aggregatorVars, requestVars, reportVars, mongoLedgerVars, syncVars>>

outsideMongoLedger == <<engineVars, trafficVars, nameVars, aggregatorVars, requestVars, reportVars, reconcileVars, syncVars>>

outsideSync == <<engineVars, trafficVars, nameVars, aggregatorVars, requestVars, reportVars, reconcileVars, mongoLedgerVars>>

vars == <<engineVars, libVars>>

(***************************************************************************)
(* The functions at rest                                                   *)
(***************************************************************************)
LedgerIdle ==
    /\ exchangeRate = 0
    /\ segmentations = <<>>
    /\ spend_mapping = <<>>
    /\ ads = <<>>
    /\ spendIdx = 1
    /\ nIn = 0
    /\ revenueData = <<>>
    /\ repeated = FALSE
    /\ assigned = <<>>
    /\ organic = <<>>
    /\ result = <<>>

QualityIdle ==
    /\ qualityLeadData = <<>>
    /\ qualitySegments = <<>>
    /\ totalSpendAll = RZero
    /\ segIdx = 1
    /\ qualityData = <<>>

FactorIdle ==
    /\ factorSegments = <<>>
    /\ factorAnalysis = <<>>

ViewIdle ==
    /\ adsByDate = <<>>
    /\ salesByRegistrationDate = <<>>
    /\ countryData = <<>>

LedgerOff == pc = "idle" /\ LedgerIdle

QualityOff ==
    /\ qpc = "idle"
    /\ segmentationsData = <<>>
    /\ multiplyRevenue = FALSE
    /\ QualityIdle

FactorOff == fpc = "idle" /\ FactorIdle

ViewOff ==
    /\ vpc = "idle"
    /\ viewSegmentations = <<>>
    /\ spendByDate = <<>>
    /\ spendByCountry = <<>>
    /\ salesByCountry = <<>>
    /\ ViewIdle

TrafficIdle == spendByTrafficType = <<>>

TrafficOff ==
    /\ tpc = "idle"
    /\ trafficSegments = <<>>
    /\ TrafficIdle

EngineOff == LedgerOff /\ QualityOff /\ FactorOff /\ ViewOff

NamesIdle ==
    /\ nameCleaned = <<>>
    /\ nameNormalized = <<>>
    /\ nameRenormalized = <<>>

NamesOff ==
    /\ npc = "idle"
    /\ nameInput = <<>>
    /\ nameParts = 0
    /\ NamesIdle

AggregatorIdle ==
    /\ matchedSales = <<>>
    /\ revenueFigures = <<>>

AggregatorOff ==
    /\ rpc = "idle"
    /\ coproduction = FALSE
    /\ AggregatorIdle

RequestIdle ==
    /\ issued = {}
    /\ thrown = <<>>
    /\ hasAdId = <<>>
    /\ ledger = <<>>
    /\ response = <<>>

RequestOff ==
    /\ hpc = "idle"
    /\ formData = <<>>
    /\ store = <<>>
    /\ RequestIdle

ReportIdle ==
    /\ csvData = <<>>
    /\ csvSegmentations = <<>>
    /\ csvMapping = <<>>

ReportOff ==
    /\ cpc = "idle"
    /\ csvRate = 0
    /\ ReportIdle

ReconcileIdle ==
    /\ recRevenue = <<>>
    /\ recReport = <<>>
    /\ recResult = <<>>

ReconcileOff ==
    /\ kpc = "idle"
    /\ ReconcileIdle

MongoLedgerIdle ==
    /\ mongoLeadGroups = <<>>
    /\ mongoReport = <<>>
    /\ mongoAds = <<>>

MongoLedgerOff ==
    /\ mpc = "idle"
    /\ MongoLedgerIdle

SyncIdle ==
    /\ spc = [p \in SyncCallers |-> "idle"]
    /\ syncBaseRows = [p \in SyncCallers |-> <<>>]
    /\ syncLeadsDocs = [p \in SyncCallers |-> <<>>]
    /\ syncSalesDocs = [p \in SyncCallers |-> <<>>]
    /\ syncCalls = 0
    /\ lastSync = <<>>

SyncOff ==
    /\ sourceBase = <<>>
    /\ sourceSales = <<>>
    /\ leadsCol = <<>>
    /\ salesCol = <<>>
    /\ SyncIdle

LibOff == TrafficOff /\ NamesOff /\ AggregatorOff /\ RequestOff /\ ReportOff /\ ReconcileOff /\ MongoLedgerOff /\ SyncOff

(***************************************************************************)
(* processDashboardData as a state machine                                 *)
(***************************************************************************)
\* A call of processDashboardData with exchange_rate 0 (no conversion).
LedgerInit ==
    /\ pc = "csv"
    /\ LedgerIdle

Init ==
    /\ LedgerInit
    /\ QualityOff
    /\ FactorOff
    /\ ViewOff
    /\ LibOff

\* The dedup signature ad|seg|revenue|leads of a revenue row.
Signature(revItem) ==
    <<normalizeAdName(revItem.ANUNCIO), normalizeAdName(revItem.SEGMENTACION),
      revItem.total_revenue, revItem.total_leads>>

\* processSpendCSV reads one more row of the report.
CsvRow ==
    /\ pc = "csv"
    /\ nIn < MaxRows
    /\ \E data \in CsvRows :
          LET r == ProcessCsvRow(segmentations, spend_mapping, data, exchangeRate)
          IN  /\ segmentations' = r.segmentations
              /\ spend_mapping' = r.mapping
    /\ nIn' = nIn + 1
    /\ UNCHANGED <<pc, exchangeRate, ads, spendIdx, revenueData, repeated, assigned,
                   organic, result>>
    /\ UNCHANGED <<qualityVars, factorVars, viewVars, libVars>>

\* Lines 561-563: no spend segmentation parsed.
CsvEmpty ==
    /\ pc = "csv"
    /\ segmentations = <<>>
    /\ pc' = "error"
    /\ UNCHANGED <<exchangeRate, segmentations, spend_mapping, ads, spendIdx, nIn,
                   revenueData, repeated, assigned, organic, result>>
    /\ UNCHANGED <<qualityVars, factorVars, viewVars, libVars>>

\* Lines 565-593: the queries are issued and the organic entry is seeded.
SeedOrganic ==
    /\ pc = "csv"
    /\ segmentations # <<>>
    /\ \E org \in OrganicResults :
          /\ organic' = org
          /\ ads' = SeedOrganicAds(org)
    /\ pc' = "revenue"
    /\ UNCHANGED <<exchangeRate, segmentations, spend_mapping, spendIdx, nIn,
                   revenueData, repeated, assigned, result>>
    /\ UNCHANGED <<qualityVars, factorVars, viewVars, libVars>>

\* Lines 596-659: one revenue row.
RevenueRow ==
    /\ pc = "revenue"
    /\ nIn < MaxRows
    /\ \E revItem \in RevenueRows :
          /\ ads' = RevenueRowStep(ads, spend_mapping, revItem)
          /\ repeated' = (\E k \in DOMAIN revenueData :
                              Signature(revenueData[k]) = Signature(revItem))
          /\ revenueData' = Append(revenueData, revItem)
    /\ nIn' = nIn + 1
    /\ UNCHANGED <<pc, exchangeRate, segmentations, spend_mapping, spendIdx, assigned,
                   organic, result>>
    /\ UNCHANGED <<qualityVars, factorVars, viewVars, libVars>>

\* The revenue loop ends (at once when getRevenueData returned null).
RevenueDone ==
    /\ pc = "revenue"
    /\ pc' = "spend"
    /\ repeated' = FALSE
    /\ UNCHANGED <<exchangeRate, segmentations, spend_mapping, ads, spendIdx, nIn,
                   revenueData, assigned, organic, result>>
    /\ UNCHANGED <<qualityVars, factorVars, viewVars, libVars>>

\* Lines 663-728: one spend segmentation.
AssignSpend ==
    /\ pc = "spend"
    /\ spendIdx <= Len(segmentations)
    /\ ads' = SpendStep(ads, segmentations[spendIdx])
    /\ assigned' = Append(assigned, findMatchingAdKey(segmentations[spendIdx], ads))
    /\ spendIdx' = spendIdx + 1
    /\ UNCHANGED <<pc, exchangeRate, segmentations, spend_mapping, nIn, revenueData,
                   repeated, organic, result>>
    /\ UNCHANGED <<qualityVars, factorVars, viewVars, libVars>>

\* Lines 731-762 and 897-904: totals, ROAS, sorting, the returned object.
Finalize ==
    /\ pc = "spend"
    /\ spendIdx > Len(segmentations)
    /\ ads' = FinalizeAds(ads)
    /\ result' = <<[ads |-> SortedAds(ads'), summary |-> Summary(ads')]>>
    /\ pc' = "done"
    /\ UNCHANGED <<exchangeRate, segmentations, spend_mapping, spendIdx, nIn,
                   revenueData, repeated, assigned, organic>>
    /\ UNCHANGED <<qualityVars, factorVars, viewVars, libVars>>

Next ==
    \/ CsvRow
    \/ CsvEmpty
    \/ SeedOrganic
    \/ RevenueRow
    \/ RevenueDone
    \/ AssignSpend
    \/ Finalize

Spec == Init /\ [][Next]_vars

(***************************************************************************)
(* buildQualityAnalysis as a state machine                                 *)
(***************************************************************************)
\* A call of buildQualityAnalysis with some spend segmentations.
QualityInit ==
    /\ qpc = "rows"
    /\ segmentationsData \in SpendMaps
    /\ multiplyRevenue \in BOOLEAN
    /\ QualityIdle

InitQuality ==
    /\ LedgerOff
    /\ QualityInit
    /\ FactorOff
    /\ ViewOff
    /\ LibOff

\* Lines 160-223: one row of qualityLeadData.
QualityRow ==
    /\ qpc = "rows"
    /\ Len(qualityLeadData) < MaxQualityRows
    /\ \E row \in QualityRows :
          /\ qualitySegments' = QualityRowStep(qualitySegments, WithNormalized(row))
          /\ qualityLeadData' = Append(qualityLeadData, row)
    /\ UNCHANGED <<qpc, segmentationsData, multiplyRevenue, totalSpendAll, segIdx, qualityData>>
    /\ UNCHANGED <<ledgerVars, factorVars, viewVars, libVars>>

\* Line 152: no quality row, the function returns null.
QualityNull ==
    /\ qpc = "rows"
    /\ qualityLeadData = <<>>
    /\ qpc' = "null"
    /\ UNCHANGED <<qualityLeadData, segmentationsData, multiplyRevenue, qualitySegments,
                   totalSpendAll, segIdx, qualityData>>
    /\ UNCHANGED <<ledgerVars, factorVars, viewVars, libVars>>

\* The loop over the rows ends.
QualityRowsDone ==
    /\ qpc = "rows"
    /\ qualityLeadData # <<>>
    /\ qpc' = "alloc"
    /\ UNCHANGED <<qualityLeadData, segmentationsData, multiplyRevenue, qualitySegments,
                   totalSpendAll, segIdx, qualityData>>
    /\ UNCHANGED <<ledgerVars, factorVars, viewVars, libVars>>

\* Lines 225-245: one spend segmentation is shared out among the cohorts.
QualityAllocate ==
    /\ qpc = "alloc"
    /\ segIdx <= Len(segmentationsData)
    /\ LET r == AllocateSpend(qualitySegments, segmentationsData[segIdx])
       IN  /\ qualitySegments' = r.segments
           /\ totalSpendAll' = RAdd(totalSpendAll, r.allocated)
    /\ segIdx' = segIdx + 1
    /\ UNCHANGED <<qpc, qualityLeadData, segmentationsData, multiplyRevenue, qualityData>>
    /\ UNCHANGED <<ledgerVars, factorVars, viewVars, libVars>>

\* Lines 247-282: cohort metrics, sorting, summary, factor analysis.
QualityFinish ==
    /\ qpc = "alloc"
    /\ segIdx > Len(segmentationsData)
    /\ qualitySegments' = FinalizeCohorts(qualitySegments)
    /\ qualityData' = <<QualityResult(qualitySegments', totalSpendAll, multiplyRevenue)>>
    /\ qpc' = "done"
    /\ UNCHANGED <<qualityLeadData, segmentationsData, multiplyRevenue, totalSpendAll, segIdx>>
    /\ UNCHANGED <<ledgerVars, factorVars, viewVars, libVars>>

NextQuality ==
    \/ QualityRow
    \/ QualityNull
    \/ QualityRowsDone
    \/ QualityAllocate
    \/ QualityFinish

SpecQuality == InitQuality /\ [][NextQuality]_vars

(***************************************************************************)
(* analyzeFactors called on arbitrary segments                             *)
(***************************************************************************)
FactorInit ==
    /\ fpc = "input"
    /\ FactorIdle

InitFactors ==
    /\ LedgerOff
    /\ QualityOff
    /\ FactorInit
    /\ ViewOff
    /\ LibOff

\* The caller adds one segment to the array it will pass.
FactorSegment ==
    /\ fpc = "input"
    /\ Len(factorSegments) < MaxFactorSegments
    /\ \E segment \in FactorSegments : factorSegments' = Append(factorSegments, segment)
    /\ UNCHANGED <<fpc, factorAnalysis>>
    /\ UNCHANGED <<ledgerVars, qualityVars, viewVars, libVars>>

\* analyzeFactors(factorSegments) with the default threshold.
AnalyzeFactors ==
    /\ fpc = "input"
    /\ factorAnalysis' = <<analyzeFactors(factorSegments, RoasThreshold)>>
    /\ fpc' = "done"
    /\ UNCHANGED factorSegments
    /\ UNCHANGED <<ledgerVars, qualityVars, viewVars, libVars>>

NextFactors ==
    \/ FactorSegment
    \/ AnalyzeFactors

SpecFactors == InitFactors /\ [][NextFactors]_vars

(***************************************************************************)
(* The date and country views as a state machine                           *)
(***************************************************************************)
ViewInit ==
    /\ vpc \in {"dates", "mongoDates"}
    /\ viewSegmentations \in SpendMaps
    /\ spendByDate \in SpendByDateMaps
    /\ spendByCountry \in SpendByCountryMaps
    /\ salesByCountry \in SalesByCountryResults
    /\ ViewIdle

\* Lines 172-190 of getSalesByRegistrationDate: one row of adsRows.
DateAdRow ==
    /\ vpc = "dates"
    /\ Len(adsByDate) < MaxViewRows
    /\ \E r \in DateAdRows :
          adsByDate' = Append(adsByDate, DateAdEntry(r, viewSegmentations, spendByDate))
    /\ UNCHANGED <<vpc, viewSegmentations, spendByDate, salesByRegistrationDate,
                   spendByCountry, salesByCountry, countryData>>
    /\ UNCHANGED <<ledgerVars, qualityVars, factorVars, libVars>>

\* Lines 191-203: the rows per date are returned.
DatesDone ==
    /\ vpc = "dates"
    /\ salesByRegistrationDate' = DateRows(MainData, adsByDate)
    /\ vpc' = "country"
    /\ UNCHANGED <<viewSegmentations, spendByDate, adsByDate, spendByCountry,
                   salesByCountry, countryData>>
    /\ UNCHANGED <<ledgerVars, qualityVars, factorVars, libVars>>

\* Lines 782-807 of processDashboardData: the country view.
CountryView ==
    /\ vpc = "country"
    /\ countryData' = CountryData(spendByCountry, salesByCountry)
    /\ vpc' = "done"
    /\ UNCHANGED <<viewSegmentations, spendByDate, adsByDate, salesByRegistrationDate,
                   spendByCountry, salesByCountry>>
    /\ UNCHANGED <<ledgerVars, qualityVars, factorVars, libVars>>

\* Lines 379-398 of getSalesByRegistrationDateFromMongo: one document of
\* the ads facet, which holds the leads whose anuncio_normalized is not ''.
MongoDateAdRow ==
    /\ vpc = "mongoDates"
    /\ Len(adsByDate) < MaxViewRows
    /\ \E doc \in DateAdRows :
          /\ normalizeAdName(doc.anuncio) # <<>>
          /\ adsByDate' = Append(adsByDate,
                                 MongoDateAdEntry(doc, viewSegmentations, spendByDate))
    /\ UNCHANGED <<vpc, viewSegmentations, spendByDate, salesByRegistrationDate,
                   spendByCountry, salesByCountry, countryData>>
    /\ UNCHANGED <<ledgerVars, qualityVars, factorVars, libVars>>

\* Lines 400-405: the rows per date are returned.
MongoDatesDone ==
    /\ vpc = "mongoDates"
    /\ salesByRegistrationDate' = MongoDateRows(MainData, adsByDate)
    /\ vpc' = "mongoDone"
    /\ UNCHANGED <<viewSegmentations, spendByDate, adsByDate, spendByCountry,
                   salesByCountry, countryData>>
    /\ UNCHANGED <<ledgerVars, qualityVars, factorVars, libVars>>

(***************************************************************************)
(* getSpendByTrafficType called on arbitrary segmentations                 *)
(***************************************************************************)
TrafficInit ==
    /\ tpc = "input"
    /\ trafficSegments = <<>>
    /\ TrafficIdle

InitTraffic ==
    /\ EngineOff
    /\ TrafficInit
    /\ NamesOff
    /\ AggregatorOff
    /\ RequestOff
    /\ ReportOff
    /\ ReconcileOff
    /\ MongoLedgerOff
    /\ SyncOff

\* The caller's segmentationsData gains one segmentation.
TrafficSegment ==
    /\ tpc = "input"
    /\ Len(trafficSegments) < MaxTrafficSegments
    /\ \E seg \in TrafficSegments : trafficSegments' = Append(trafficSegments, seg)
    /\ UNCHANGED <<tpc, spendByTrafficType>>
    /\ UNCHANGED outsideTraffic

\* Lines 273-283: the call.
SpendByTrafficType ==
    /\ tpc = "input"
    /\ spendByTrafficType' = <<getSpendByTrafficType(trafficSegments)>>
    /\ tpc' = "done"
    /\ UNCHANGED trafficSegments
    /\ UNCHANGED outsideTraffic

NextTraffic ==
    \/ TrafficSegment
    \/ SpendByTrafficType

SpecTraffic == InitTraffic /\ [][NextTraffic]_vars

(***************************************************************************)
(* The name normalizer called on arbitrary names                           *)
(***************************************************************************)
NamesInit ==
    /\ npc = "input"
    /\ nameInput = <<>>
    /\ nameParts = 0
    /\ NamesIdle

InitNames ==
    /\ EngineOff
    /\ TrafficOff
    /\ NamesInit
    /\ AggregatorOff
    /\ RequestOff
    /\ ReportOff
    /\ ReconcileOff
    /\ MongoLedgerOff
    /\ SyncOff

\* The caller's name gains one piece.
NameFragment ==
    /\ npc = "input"
    /\ nameParts < MaxNameFragments
    /\ \E f \in NameFragments : nameInput' = nameInput \o f
    /\ nameParts' = nameParts + 1
    /\ UNCHANGED <<npc, nameCleaned, nameNormalized, nameRenormalized>>
    /\ UNCHANGED outsideNames

\* cleanDisplayName and normalizeAdName applied to the name, and
\* normalizeAdName applied to its own result.
NormalizeName ==
    /\ npc = "input"
    /\ nameCleaned' = cleanDisplayName(nameInput)
    /\ nameNormalized' = normalizeAdName(nameInput)
    /\ nameRenormalized' = normalizeAdName(nameNormalized')
    /\ npc' = "done"
    /\ UNCHANGED <<nameInput, nameParts>>
    /\ UNCHANGED outsideNames

NextNames ==
    \/ NameFragment
    \/ NormalizeName

SpecNames == InitNames /\ [][NextNames]_vars

(***************************************************************************)
(* The Revenue Aggregator on the sales of one group                        *)
(***************************************************************************)
AggregatorInit ==
    /\ rpc = "input"
    /\ coproduction \in BOOLEAN
    /\ AggregatorIdle

InitAggregator ==
    /\ EngineOff
    /\ TrafficOff
    /\ NamesOff
    /\ AggregatorInit
    /\ RequestOff
    /\ ReportOff
    /\ ReconcileOff
    /\ MongoLedgerOff
    /\ SyncOff

\* The store holds one more tracked sale of the group's leads.
TrackedSale ==
    /\ rpc = "input"
    /\ Len(matchedSales) < MaxSales
    /\ \E v \in TrackedSales : matchedSales' = Append(matchedSales, v)
    /\ UNCHANGED <<rpc, coproduction, revenueFigures>>
    /\ UNCHANGED outsideAggregator

\* The group's revenue as each aggregator reports it.
AggregateRevenue ==
    /\ rpc = "input"
    /\ revenueFigures' =
          <<[getRevenueData |-> SqlTotalRevenue(matchedSales, coproduction),
             aggregateAdsFromMongo |->
                 MongoRowRevenue(matchedSales, GroupLeads, coproduction),
             aggregateAdsFromMongoLib |->
                 MongoLibRowRevenue(matchedSales, GroupLeads, coproduction)]>>
    /\ rpc' = "done"
    /\ UNCHANGED <<coproduction, matchedSales>>
    /\ UNCHANGED outsideAggregator

NextAggregator ==
    \/ TrackedSale
    \/ AggregateRevenue

SpecAggregator == InitAggregator /\ [][NextAggregator]_vars

(***************************************************************************)
(* A request to processDashboardData against a store                       *)
(***************************************************************************)
RequestInit ==
    /\ hpc = "called"
    /\ formData \in Forms
    /\ store \in Stores
    /\ RequestIdle

InitRequest ==
    /\ EngineOff
    /\ TrafficOff
    /\ NamesOff
    /\ AggregatorOff
    /\ RequestInit
    /\ ReportOff
    /\ ReconcileOff
    /\ MongoLedgerOff
    /\ SyncOff

\* Lines 538-563: the form is read and validated.
Validate ==
    /\ hpc = "called"
    /\ thrown' = Validation(formData)
    /\ hpc' = IF thrown' # <<>> THEN "thrown" ELSE "validated"
    /\ UNCHANGED <<formData, store, issued, hasAdId, ledger, response>>
    /\ UNCHANGED outsideRequest

\* Lines 565-762: the revenue and organic queries, then the ledger.
FetchLedger ==
    /\ hpc = "validated"
    /\ LET Fetched(revenueCall, organicCall) ==
               IF revenueCall.threw
               THEN /\ issued' = issued \cup revenueCall.issued
                    /\ hpc' = "thrown"
                    /\ thrown' = <<"store">>
                    /\ ledger' = ledger
               ELSE /\ issued' = issued \cup revenueCall.issued
                                   \cup organicCall.issued
                    /\ hpc' = "ledger"
                    /\ thrown' = thrown
                    /\ ledger' = <<BuildInteractiveData(
                                       processSpendCSV(formData.spend_report[1].rows),
                                       revenueCall.value, organicCall.value)>>
       IN  Fetched(getRevenueData(store, formData.base_table), getOrganicSales(store))
    /\ hasAdId' = <<columnExists(store, formData.base_table, "AD_ID")>>
    /\ UNCHANGED <<formData, store, response>>
    /\ UNCHANGED outsideRequest

\* Lines 764-917: the analyses, then the object is returned.
Analyse ==
    /\ hpc = "ledger"
    /\ LET Returned(analyses) ==
               /\ issued' = issued \cup analyses.issued
               /\ IF analyses.threw
                  THEN /\ hpc' = "thrown"
                       /\ thrown' = <<"store">>
                       /\ response' = response
                  ELSE /\ hpc' = "done"
                       /\ thrown' = thrown
                       /\ response' =
                              <<[ads |-> ledger[1].ads,
                                 summary |-> ledger[1].summary,
                                 qualityData |-> analyses.qualityData,
                                 countryData |-> analyses.countryData,
                                 captationDaysData |-> analyses.captationDaysData,
                                 salesByRegistrationDate |->
                                     analyses.salesByRegistrationDate,
                                 salesByRegistrationDateByCountry |->
                                     analyses.salesByRegistrationDateByCountry,
                                 captationByAnuncio |-> analyses.captationByAnuncio,
                                 captationByPais |-> analyses.captationByPais,
                                 trafficTypeSummary |-> analyses.trafficTypeSummary,
                                 trafficTypeSpend |->
                                     getSpendByTrafficType(
                                         processSpendCSV(formData.spend_report[1].rows)
                                             .segmentations),
                                 captationByTrafficType |->
                                     analyses.captationByTrafficType]>>
       IN  Returned(Analyses(store, formData))
    /\ UNCHANGED <<formData, store, hasAdId, ledger>>
    /\ UNCHANGED outsideRequest

NextRequest ==
    \/ Validate
    \/ FetchLedger
    \/ Analyse

SpecRequest == InitRequest /\ [][NextRequest]_vars

(***************************************************************************)
(* processSpendCSV called on arbitrary reports                             *)
(***************************************************************************)
ReportInit ==
    /\ cpc = "rows"
    /\ csvRate \in ExchangeRates
    /\ ReportIdle

InitReport ==
    /\ EngineOff
    /\ TrafficOff
    /\ NamesOff
    /\ AggregatorOff
    /\ RequestOff
    /\ ReportInit
    /\ ReconcileOff
    /\ MongoLedgerOff
    /\ SyncOff

\* Lines 70-106: one iteration of the loop over results.data.
ReportRow ==
    /\ cpc = "rows"
    /\ Len(csvData) < MaxReportRows
    /\ \E data \in ReportRows :
          /\ csvData' = Append(csvData, data)
          /\ LET Stepped(r) ==
                     /\ csvSegmentations' = r.segmentations
                     /\ csvMapping' = r.mapping
             IN  Stepped(ProcessCsvRow(csvSegmentations, csvMapping, data, csvRate))
    /\ UNCHANGED <<cpc, csvRate>>
    /\ UNCHANGED outsideReport

\* Line 109: resolve({ segmentations, mapping }).
ReportResolve ==
    /\ cpc = "rows"
    /\ cpc' = "done"
    /\ UNCHANGED <<csvRate, csvData, csvSegmentations, csvMapping>>
    /\ UNCHANGED outsideReport

NextReport ==
    \/ ReportRow
    \/ ReportResolve

SpecReport == InitReport /\ [][NextReport]_vars

(***************************************************************************)
(* processDashboardData on rows with platform ids and numeric ad names    *)
(***************************************************************************)
ReconcileInit ==
    /\ kpc = "input"
    /\ ReconcileIdle

InitReconcile ==
    /\ EngineOff
    /\ TrafficOff
    /\ NamesOff
    /\ AggregatorOff
    /\ RequestOff
    /\ ReportOff
    /\ ReconcileInit
    /\ MongoLedgerOff
    /\ SyncOff

\* The store holds one more grouped revenue row.
ReconcileRevenueRow ==
    /\ kpc = "input"
    /\ Len(recRevenue) < MaxReconcileRows
    /\ \E revItem \in ReconcileRevenueRows : recRevenue' = Append(recRevenue, revItem)
    /\ UNCHANGED <<kpc, recReport, recResult>>
    /\ UNCHANGED outsideReconcile

\* The spend report holds one more row.
ReconcileReportRow ==
    /\ kpc = "input"
    /\ Len(recReport) < MaxReconcileRows
    /\ \E data \in ReconcileReportRows : recReport' = Append(recReport, data)
    /\ UNCHANGED <<kpc, recRevenue, recResult>>
    /\ UNCHANGED outsideReconcile

\* Lines 554-762 and 897-904 on a report that yields segmentations.
Reconcile ==
    /\ kpc = "input"
    /\ recReport # <<>>
    /\ recResult' = <<BuildInteractiveData(processSpendCSV(recReport), <<recRevenue>>,
                                           <<>>)>>
    /\ kpc' = "done"
    /\ UNCHANGED <<recRevenue, recReport>>
    /\ UNCHANGED outsideReconcile

NextReconcile ==
    \/ ReconcileRevenueRow
    \/ ReconcileReportRow
    \/ Reconcile

SpecReconcile == InitReconcile /\ [][NextReconcile]_vars

(***************************************************************************)
(* aggregateAdsFromMongo on staged lead groups and a stored report         *)
(***************************************************************************)
MongoLedgerInit ==
    /\ mpc = "input"
    /\ MongoLedgerIdle

InitMongoLedger ==
    /\ EngineOff
    /\ TrafficOff
    /\ NamesOff
    /\ AggregatorOff
    /\ RequestOff
    /\ ReportOff
    /\ ReconcileOff
    /\ MongoLedgerInit
    /\ SyncOff

\* The pipeline returns one more group of leads: a group appears once.
MongoLeadGroup ==
    /\ mpc = "input"
    /\ Len(mongoLeadGroups) < MaxMongoRows
    /\ \E group \in MongoLeadGroups :
          /\ \A i \in DOMAIN mongoLeadGroups : mongoLeadGroups[i] # group
          /\ mongoLeadGroups' = Append(mongoLeadGroups, group)
    /\ UNCHANGED <<mpc, mongoReport, mongoAds>>
    /\ UNCHANGED outsideMongoLedger

\* The stored report holds one more row.
MongoReportRow ==
    /\ mpc = "input"
    /\ Len(mongoReport) < MaxMongoRows
    /\ \E data \in MongoReportRows : mongoReport' = Append(mongoReport, data)
    /\ UNCHANGED <<mpc, mongoLeadGroups, mongoAds>>
    /\ UNCHANGED outsideMongoLedger

\* aggregateAdsFromMongo returns.
AggregateAds ==
    /\ mpc = "input"
    /\ mongoAds' = <<aggregateAdsFromMongo(mongoLeadGroups, processSpendCSV(mongoReport))>>
    /\ mpc' = "done"
    /\ UNCHANGED <<mongoLeadGroups, mongoReport>>
    /\ UNCHANGED outsideMongoLedger

NextMongoLedger ==
    \/ MongoLeadGroup
    \/ MongoReportRow
    \/ AggregateAds

SpecMongoLedger == InitMongoLedger /\ [][NextMongoLedger]_vars

(***************************************************************************)
(* syncMySQLToMongo called by two callers, one step per await              *)
(***************************************************************************)
SyncInit ==
    /\ sourceBase \in BaseTables
    /\ sourceSales \in SalesTables
    /\ leadsCol \in {<<>>, <<OtherLeadDoc>>}
    /\ salesCol = <<>>
    /\ SyncIdle

InitSync ==
    /\ EngineOff
    /\ TrafficOff
    /\ NamesOff
    /\ AggregatorOff
    /\ RequestOff
    /\ ReportOff
    /\ ReconcileOff
    /\ MongoLedgerOff
    /\ SyncInit

\* A row is added to or removed from the tables between two statements.
SourceChange ==
    /\ \E base \in BaseTables, sales \in SalesTables :
          /\ <<base, sales>> # <<sourceBase, sourceSales>>
          /\ sourceBase' = base
          /\ sourceSales' = sales
    /\ UNCHANGED <<spc, syncBaseRows, syncLeadsDocs, syncSalesDocs, leadsCol, salesCol, syncCalls,
                   lastSync>>
    /\ UNCHANGED outsideSync

\* Line 58: SELECT * FROM the base table.
SyncQueryBase(p) ==
    /\ spc[p] = "idle"
    /\ syncCalls < MaxSyncCalls
    /\ syncCalls' = syncCalls + 1
    /\ syncBaseRows' = [syncBaseRows EXCEPT ![p] = sourceBase]
    /\ spc' = [spc EXCEPT ![p] = "base"]
    /\ UNCHANGED <<sourceBase, sourceSales, syncBaseRows, syncLeadsDocs, syncSalesDocs, leadsCol,
                   salesCol, lastSync>>
    /\ UNCHANGED outsideSync

\* Lines 59-76: SELECT * FROM the sales table, and the documents.
SyncQuerySales(p) ==
    /\ spc[p] = "base"
    /\ syncLeadsDocs' = [syncLeadsDocs EXCEPT ![p] =
          [i \in DOMAIN syncBaseRows[p] |->
              rowToDoc(syncBaseRows[p][i], SyncConfig, syncCalls)]]
    /\ syncSalesDocs' = [syncSalesDocs EXCEPT ![p] =
          [i \in DOMAIN sourceSales |-> SaleDoc(sourceSales[i], SyncConfig, syncCalls)]]
    /\ spc' = [spc EXCEPT ![p] = "docs"]
    /\ UNCHANGED <<sourceBase, sourceSales, syncBaseRows, leadsCol, salesCol, syncCalls,
                   lastSync>>
    /\ UNCHANGED outsideSync

\* Line 78: await leadsCol.deleteMany.
SyncDeleteLeads(p) ==
    /\ spc[p] = "docs"
    /\ leadsCol' = deleteMany(leadsCol, SyncConfig)
    /\ spc' = [spc EXCEPT ![p] = "leadsDeleted"]
    /\ UNCHANGED <<sourceBase, sourceSales, syncBaseRows, syncLeadsDocs, syncSalesDocs, salesCol,
                   syncCalls, lastSync>>
    /\ UNCHANGED outsideSync

\* Line 79: await salesCol.deleteMany.
SyncDeleteSales(p) ==
    /\ spc[p] = "leadsDeleted"
    /\ salesCol' = deleteMany(salesCol, SyncConfig)
    /\ spc' = [spc EXCEPT ![p] = "salesDeleted"]
    /\ UNCHANGED <<sourceBase, sourceSales, syncBaseRows, syncLeadsDocs, syncSalesDocs, leadsCol,
                   syncCalls, lastSync>>
    /\ UNCHANGED outsideSync

\* Lines 81-83: await leadsCol.insertMany when there are documents.
SyncInsertLeads(p) ==
    /\ spc[p] = "salesDeleted"
    /\ leadsCol' = IF Len(syncLeadsDocs[p]) > 0
                   THEN insertMany(leadsCol, syncLeadsDocs[p]) ELSE leadsCol
    /\ spc' = [spc EXCEPT ![p] = "leadsInserted"]
    /\ UNCHANGED <<sourceBase, sourceSales, syncBaseRows, syncLeadsDocs, syncSalesDocs, salesCol,
                   syncCalls, lastSync>>
    /\ UNCHANGED outsideSync

\* Lines 84-88: await salesCol.insertMany when there are documents, and the
\* call returns.
SyncInsertSales(p) ==
    /\ spc[p] = "leadsInserted"
    /\ salesCol' = IF Len(syncSalesDocs[p]) > 0
                   THEN insertMany(salesCol, syncSalesDocs[p]) ELSE salesCol
    /\ lastSync' = <<[leads |-> syncLeadsDocs[p], sales |-> syncSalesDocs[p]]>>
    /\ spc' = [spc EXCEPT ![p] = "idle"]
    /\ syncBaseRows' = [syncBaseRows EXCEPT ![p] = <<>>]
    /\ syncLeadsDocs' = [syncLeadsDocs EXCEPT ![p] = <<>>]
    /\ syncSalesDocs' = [syncSalesDocs EXCEPT ![p] = <<>>]
    /\ UNCHANGED <<sourceBase, sourceSales, leadsCol, syncCalls>>
    /\ UNCHANGED outsideSync

NextSync ==
    \/ SourceChange
    \/ \E p \in SyncCallers : SyncQueryBase(p)
    \/ \E p \in SyncCallers : SyncQuerySales(p)
    \/ \E p \in SyncCallers : SyncDeleteLeads(p)
    \/ \E p \in SyncCallers : SyncDeleteSales(p)
    \/ \E p \in SyncCallers : SyncInsertLeads(p)
    \/ \E p \in SyncCallers : SyncInsertSales(p)

SpecSync == InitSync /\ [][NextSync]_vars

(***************************************************************************)
(* Every function that computes a ROAS, any one of them running            *)
(***************************************************************************)
InitRoas ==
    \/ (LedgerInit /\ QualityOff /\ FactorOff /\ ViewOff /\ LibOff)
    \/ (LedgerOff /\ QualityInit /\ FactorOff /\ ViewOff /\ LibOff)
    \/ (LedgerOff /\ QualityOff /\ FactorOff /\ ViewInit /\ LibOff)

NextRoas ==
    \/ CsvRow
    \/ CsvEmpty
    \/ SeedOrganic
    \/ RevenueRow
    \/ RevenueDone
    \/ AssignSpend
    \/ Finalize
    \/ QualityRow
    \/ QualityNull
    \/ QualityRowsDone
    \/ QualityAllocate
    \/ QualityFinish
    \/ DateAdRow
    \/ DatesDone
    \/ CountryView
    \/ MongoDateAdRow
    \/ MongoDatesDone

SpecRoas == InitRoas /\ [][NextRoas]_vars

(***************************************************************************)
(* Vocabulary of the properties                                            *)
(***************************************************************************)
\* x rounded to 2 decimals, as the specification words it.
RoundCents(x) == ((2 * x + Cent) \div (2 * Cent)) * Cent

SegSpendSum(ad) ==
    SumSeq([j \in DOMAIN ad.segmentations |-> ad.segmentations[j].spend_allocated])

SegRevenueSum(ad) ==
    SumSeq([j \in DOMAIN ad.segmentations |-> ad.segmentations[j].revenue])

\* The spend of the spend segmentations that were resolved to this ad key.
AssignedSpend(key) ==
    SumSeq([k \in DOMAIN assigned |-> IF assigned[k] = key THEN segmentations[k].spend ELSE 0])

TotalSpendOfAds == SumSeq([i \in DOMAIN ads |-> ads[i].total_spend])

TotalSpendOfInput == SumSeq([k \in DOMAIN segmentations |-> segmentations[k].spend])

\* The revenue figures of the ledger: per ad and per segmentation entry.
LedgerTotals(a) ==
    [i \in DOMAIN a |->
        [total_revenue |-> a[i].total_revenue,
         total_leads |-> a[i].total_leads,
         total_sales |-> a[i].total_sales,
         segs |-> [j \in DOMAIN a[i].segmentations |->
                      <<a[i].segmentations[j].revenue,
                        a[i].segmentations[j].leads,
                        a[i].segmentations[j].sales>>]]]

OrganicSeeded == organic # <<>> /\ organic[1].total_sales > 0

(***************************************************************************)
(* C1: after reconciliation, every ad entry's total_spend equals the sum   *)
(* of spend_allocated over its segmentation entries, rounded to 2 decimals.*)
(***************************************************************************)
C1_SpendPerAd ==
    pc = "done" =>
        \A i \in DOMAIN ads : ads[i].total_spend = RoundCents(SegSpendSum(ads[i]))

\* An ad with two funded segmentation entries whose sum is not a whole
\* number of cents.
C1_Witness ==
    /\ pc = "done"
    /\ \E i \in DOMAIN ads :
          /\ Cardinality({j \in DOMAIN ads[i].segmentations :
                              ads[i].segmentations[j].spend_allocated > 0}) >= 2
          /\ SegSpendSum(ads[i]) % Cent # 0

(***************************************************************************)
(* C2: every spend segmentation is added to exactly one ad entry: each     *)
(* ad's total_spend is the sum of the spend of the segmentations resolved  *)
(* to it (rounded to 2 decimals at the end), so the sum of total_spend     *)
(* equals the sum of the input spend up to half a cent per ad.             *)
(***************************************************************************)
C2_SpendConserved ==
    pc \in {"spend", "done"} =>
        /\ \A k \in DOMAIN assigned : FindKey(ads, assigned[k]) # 0
        /\ \A i \in DOMAIN ads :
              ads[i].total_spend = IF pc = "done"
                                   THEN RoundCents(AssignedSpend(ads[i].key))
                                   ELSE AssignedSpend(ads[i].key)
        /\ pc = "done" =>
              /\ Len(assigned) = Len(segmentations)
              /\ 2 * Abs(TotalSpendOfAds - TotalSpendOfInput) <= Len(ads) * Cent

\* Two spend segmentations with different ad names land in one ad, another
\* ad exists, and the rounding has changed the total.
C2_Witness ==
    /\ pc = "done"
    /\ Len(ads) >= 2
    /\ TotalSpendOfAds # TotalSpendOfInput
    /\ \E k1, k2 \in DOMAIN assigned :
          /\ assigned[k1] = assigned[k2]
          /\ segmentations[k1].ad_name_normalized # segmentations[k2].ad_name_normalized
          /\ segmentations[k1].spend > 0
          /\ segmentations[k2].spend > 0

(***************************************************************************)
(* C3: feeding the revenue loop a row whose signature (normalized ad,      *)
(* normalized segmentation, revenue, leads) was fed before changes no      *)
(* revenue, lead or sale total of any ad or segmentation entry.            *)
(***************************************************************************)
C3_RepeatedRowChangesNothing ==
    [][(pc = "revenue" /\ pc' = "revenue" /\ repeated')
          => LedgerTotals(ads') = LedgerTotals(ads)]_vars

(***************************************************************************)
(* C4: after processing, every ad entry's total_revenue equals the sum of  *)
(* revenue over its segmentation entries.                                  *)
(***************************************************************************)
C4_RevenuePerAd ==
    pc = "done" =>
        \A i \in DOMAIN ads : ads[i].total_revenue = SegRevenueSum(ads[i])

(***************************************************************************)
(* C5: two spend segmentations with the same non-empty platform ad-id and  *)
(* different normalized ad names are added to the same ad entry.           *)
(***************************************************************************)
C5_SameIdSameAd ==
    \A k1, k2 \in DOMAIN assigned :
        (/\ segmentations[k1].ad_id # <<>>
         /\ segmentations[k1].ad_id = segmentations[k2].ad_id
         /\ segmentations[k1].ad_name_normalized # segmentations[k2].ad_name_normalized)
        => assigned[k1] = assigned[k2]

(***************************************************************************)
(* C6: every ROAS the engine produces (per-ad roas, totalRoasAll, cohort   *)
(* roas and quality total_roas, per-country roas, per-date per-ad roas) is *)
(* 0 whenever the corresponding spend is 0, whatever the revenue, and none *)
(* is the result of a division by a zero spend (Infinity or NaN).          *)
(***************************************************************************)
RoasGuarded(roas, spendIsZero) == IsFinite(roas) /\ (spendIsZero => roas = RZero)

C6_RoasZeroWithoutSpend ==
    /\ pc = "done" =>
          /\ \A i \in DOMAIN ads : RoasGuarded(ads[i].roas, ads[i].total_spend = 0)
          /\ \A i \in DOMAIN result[1].ads :
                RoasGuarded(result[1].ads[i].roas, result[1].ads[i].total_spend = 0)
          /\ RoasGuarded(result[1].summary.totalRoasAll, result[1].summary.totalSpendAll = 0)
    /\ qpc = "done" =>
          /\ \A c \in DOMAIN qualityData[1].segments :
                RoasGuarded(qualityData[1].segments[c].roas,
                            qualityData[1].segments[c].total_spend = RZero)
          /\ RoasGuarded(qualityData[1].summary.total_roas,
                         qualityData[1].summary.total_spend = RZero)
    /\ \A i \in DOMAIN adsByDate : RoasGuarded(adsByDate[i].roas, adsByDate[i].gasto = 0)
    /\ \A d \in DOMAIN salesByRegistrationDate :
          \A i \in DOMAIN salesByRegistrationDate[d].ads :
              RoasGuarded(salesByRegistrationDate[d].ads[i].roas,
                          salesByRegistrationDate[d].ads[i].gasto = 0)
    /\ \A i \in DOMAIN countryData : RoasGuarded(countryData[i].roas, countryData[i].gasto = 0)

\* A final ledger with an ad that earned revenue and received no spend,
\* next to one that received spend.
C6_Witness ==
    /\ pc = "done"
    /\ \E i \in DOMAIN ads : ads[i].total_spend = 0 /\ ads[i].total_revenue > 0
    /\ \E i \in DOMAIN ads : ads[i].total_spend > 0 /\ ads[i].roas # RZero

\* The same case in the other computations.
QualityRoasCase ==
    /\ qpc = "done"
    /\ \E c \in DOMAIN qualityData[1].segments :
          /\ qualityData[1].segments[c].total_spend = RZero
          /\ qualityData[1].segments[c].total_revenue > 0
    /\ \E c \in DOMAIN qualityData[1].segments : qualityData[1].segments[c].roas # RZero

QualityTotalRoasCase ==
    /\ qpc = "done"
    /\ qualityData[1].summary.total_spend = RZero
    /\ qualityData[1].summary.total_revenue > 0

ViewRoasCase ==
    /\ vpc = "done"
    /\ \E i \in DOMAIN adsByDate : adsByDate[i].gasto = 0 /\ adsByDate[i].revenue > 0
    /\ \E i \in DOMAIN countryData :
          countryData[i].gasto = 0 /\ countryData[i].ventas_trackeadas > 0
    /\ \E i \in DOMAIN countryData : countryData[i].roas # RZero

(***************************************************************************)
(* C7: in buildQualityAnalysis, for every spend segmentation key K: if the *)
(* leads of K over all cohorts are > 0, every cohort holding K receives    *)
(* spend[K] * cohortLeads(K) / totalLeads(K) and these amounts sum to      *)
(* spend[K]; if they are 0, K adds nothing to any cohort nor to the        *)
(* summary's total_spend.                                                  *)
(***************************************************************************)
\* The key of spend segmentation k, its holders among the returned cohorts
\* and their leads.
SpendKey(k) ==
    segmentationsData[k].key[1] \o <<"|">> \o segmentationsData[k].key[2]

Cohorts == qualityData[1].segments

HeldAd(c, k) == FindKey(Cohorts[c].ads, SpendKey(k))

Holders(k) == {c \in DOMAIN Cohorts : HeldAd(c, k) # 0}

CohortLeads(c, k) == Cohorts[c].ads[HeldAd(c, k)].leads

TotalLeads(k) ==
    SumSeq([c \in DOMAIN Cohorts |-> IF c \in Holders(k) THEN CohortLeads(c, k) ELSE 0])

AllocatedTo(c, k) == Cohorts[c].ads[HeldAd(c, k)].spend

GoodLeads(field, value) ==
    SumSeq([i \in DOMAIN factorSegments |->
               IF /\ factorSegments[i][field] = value
                  /\ 2 * factorSegments[i].roas[1] >= 3 * factorSegments[i].roas[2]
               THEN factorSegments[i].total_leads ELSE 0])

BadLeads(field, value) ==
    SumSeq([i \in DOMAIN factorSegments |->
               IF /\ factorSegments[i][field] = value
                  /\ 2 * factorSegments[i].roas[1] < 3 * factorSegments[i].roas[2]
               THEN factorSegments[i].total_leads ELSE 0])

InGood(field, value) == value \in DOMAIN factorAnalysis[1].good_factors[field]

InBad(field, value) == value \in DOMAIN factorAnalysis[1].bad_factors[field]

C8_FactorThresholds ==
    fpc = "done" =>
        \A field \in FactorFields :
            /\ \A i \in DOMAIN factorSegments :
                  LET value == factorSegments[i][field]
                      G == GoodLeads(field, value)
                      T == GoodLeads(field, value) + BadLeads(field, value)
                  IN  /\ T < 5 => (~InGood(field, value) /\ ~InBad(field, value))
                      /\ T >= 5 => /\ InGood(field, value) <=> (10 * G >= 7 * T)
                                   /\ InBad(field, value) <=> (10 * G <= 3 * T)
                      /\ ~(InGood(field, value) /\ InBad(field, value))
            /\ \A value \in DOMAIN factorAnalysis[1].good_factors[field]
                            \cup DOMAIN factorAnalysis[1].bad_factors[field] :
                  \E i \in DOMAIN factorSegments : factorSegments[i][field] = value

\* A value with a ratio of exactly 0.7 (7 good leads of 10) is good.
C8_Witness ==
    /\ fpc = "done"
    /\ \E i \in DOMAIN factorSegments :
          LET value == factorSegments[i].qlead
          IN  /\ GoodLeads("qlead", value) = 7
              /\ BadLeads("qlead", value) = 3
              /\ InGood("qlead", value)

\* Further cases: a value with 4 leads, all good; a ratio of exactly 0.3.
BelowSupportCase ==
    /\ fpc = "done"
    /\ \E i \in DOMAIN factorSegments :
          /\ GoodLeads("qlead", factorSegments[i].qlead) = 4
          /\ BadLeads("qlead", factorSegments[i].qlead) = 0

ExactlyBadCase ==
    /\ fpc = "done"
    /\ \E i \in DOMAIN factorSegments :
          /\ GoodLeads("qlead", factorSegments[i].qlead) = 3
          /\ BadLeads("qlead", factorSegments[i].qlead) = 7
          /\ InBad("qlead", factorSegments[i].qlead)

(***************************************************************************)
(* C9: when one spend segmentation and one revenue row are the only inputs *)
(* of an ad, carry no ad-id and have equal normalized ad names and equal   *)
(* normalized segmentation names (the spend being a positive whole number  *)
(* of cents), the ad holds one single segmentation entry with revenue =    *)
(* the row's revenue, spend_allocated = the spend, cpl = spend/leads and   *)
(* conversion_rate = sales/leads*100, and the ad has total_spend = spend,  *)
(* total_revenue = revenue, roas = revenue/spend, profit = revenue - spend.*)
(***************************************************************************)
\* Revenue row r and spend segmentation k are the only inputs of their ad.
MatchedPair(r, k) ==
    LET revItem == revenueData[r]
        segData == segmentations[k]
        adN     == normalizeAdName(revItem.ANUNCIO)
    IN  /\ adN = segData.ad_name_normalized
        /\ normalizeAdName(revItem.SEGMENTACION) = normalizeAdName(segData.segmentation_name)
        /\ segData.ad_id = <<>>
        /\ Trim(revItem.AD_ID) = <<>>
        /\ segData.spend > 0
        /\ segData.spend % Cent = 0
        /\ \A r2 \in DOMAIN revenueData :
              r2 # r => normalizeAdName(revenueData[r2].ANUNCIO) # adN
        /\ \A k2 \in DOMAIN segmentations :
              k2 # k => (segmentations[k2].ad_name_normalized # adN /\ assigned[k2] # adN)
        /\ ~(OrganicSeeded /\ adN = OrganicaKey)

PairInOneEntry(r, k) ==
    LET revItem == revenueData[r]
        spend   == segmentations[k].spend
        a       == FindKey(ads, segmentations[k].ad_name_normalized)
    IN  /\ a # 0
        /\ Len(ads[a].segmentations) = 1
        /\ LET seg == ads[a].segmentations[1]
           IN  /\ seg.revenue = revItem.total_revenue
               /\ seg.spend_allocated = spend
               /\ seg.cpl = Ratio(spend, revItem.total_leads)
               /\ seg.conversion_rate = Ratio(revItem.total_sales * 100, revItem.total_leads)
        /\ ads[a].total_spend = spend
        /\ ads[a].total_revenue = revItem.total_revenue
        /\ ads[a].roas = Ratio(revItem.total_revenue, spend)
        /\ ads[a].profit = revItem.total_revenue - spend

C9_MatchedPairOneEntry ==
    pc = "done" =>
        \A r \in DOMAIN revenueData : \A k \in DOMAIN segmentations :
            MatchedPair(r, k) => PairInOneEntry(r, k)

(***************************************************************************)
(* C10: the 'organica' entry of the final ledger has total_spend 0, roas 0 *)
(* and profit equal to the organic revenue.                                *)
(***************************************************************************)
C10_OrganicUntouched ==
    (pc = "done" /\ OrganicSeeded) =>
        LET o == FindKey(ads, OrganicaKey)
        IN  /\ o # 0
            /\ ads[o].total_spend = 0
            /\ ads[o].roas = RZero
            /\ ads[o].profit = organic[1].total_revenue

(***************************************************************************)
(* The returned summary                                                    *)
(***************************************************************************)
ReturnedAds == result[1].ads

ReturnedSummary == result[1].summary

PaidRevenue ==
    SumSeq([i \in DOMAIN ReturnedAds |->
               IF ReturnedAds[i].key = OrganicaKey THEN 0 ELSE ReturnedAds[i].total_revenue])

ReturnedSpend == SumSeq([i \in DOMAIN ReturnedAds |-> ReturnedAds[i].total_spend])

\* C11: in the returned summary totalRevenueAll is the sum of total_revenue
\* over the returned ad entries other than the one keyed 'organica',
\* totalSpendAll is the sum of total_spend over all returned ad entries, and
\* totalRoasAll is totalRevenueAll / totalSpendAll when totalSpendAll > 0
\* and 0 otherwise.
C11_SummaryTotals ==
    pc = "done" =>
        /\ ReturnedSummary.totalRevenueAll = PaidRevenue
        /\ ReturnedSummary.totalSpendAll = ReturnedSpend
        /\ ReturnedSummary.totalRoasAll =
               IF ReturnedSpend > 0 THEN Ratio(PaidRevenue, ReturnedSpend) ELSE RZero

\* A finished run with an organic entry holding revenue, a paid ad holding
\* revenue, and spend.
C11_Witness ==
    /\ pc = "done"
    /\ \E i, j \in DOMAIN ReturnedAds :
          /\ ReturnedAds[i].key = OrganicaKey
          /\ ReturnedAds[i].total_revenue > 0
          /\ ReturnedAds[j].key # OrganicaKey
          /\ ReturnedAds[j].total_revenue > 0
    /\ ReturnedSpend > 0
    /\ ReturnedSummary.totalRoasAll # RZero

\* A finished run whose only revenue is organic: the summary counts no
\* revenue and its ROAS is 0.
C11_OrganicOnlyCase ==
    /\ pc = "done"
    /\ PaidRevenue = 0
    /\ \E i \in DOMAIN ReturnedAds : ReturnedAds[i].total_revenue > 0
    /\ ReturnedSummary.totalRoasAll = RZero

(***************************************************************************)
(* Traffic types                                                           *)
(***************************************************************************)
\* name contains the marker, letter case ignored.
ContainsIgnoringCase(name, marker) ==
    \E i \in 1..(Len(name) - 1) :
        /\ name[i] \in {marker[1], ToLowerChar(marker[1])}
        /\ name[i + 1] \in {marker[2], ToLowerChar(marker[2])}

ExpectedTrafficType(name) ==
    IF ContainsIgnoringCase(name, <<"P", "Q">>) THEN "caliente"
    ELSE IF ContainsIgnoringCase(name, <<"P", "F">>) THEN "frio"
    ELSE "otro"

BucketSpend(type) ==
    SumSeq([i \in DOMAIN trafficSegments |->
               IF ExpectedTrafficType(trafficSegments[i].campaign_name) = type
               THEN trafficSegments[i].spend ELSE 0])

\* C12: a campaign name containing 'PQ' in any letter case is 'caliente',
\* otherwise one containing 'PF' is 'frio', otherwise it is 'otro';
\* getSpendByTrafficType adds each segmentation's spend to the one bucket
\* of its campaign, so the three buckets add up to the total spend.
C12_TrafficBuckets ==
    tpc = "done" =>
        /\ spendByTrafficType[1].caliente = BucketSpend("caliente")
        /\ spendByTrafficType[1].frio = BucketSpend("frio")
        /\ spendByTrafficType[1].otro = BucketSpend("otro")
        /\ spendByTrafficType[1].frio + spendByTrafficType[1].caliente
              + spendByTrafficType[1].otro
              = SumSeq([i \in DOMAIN trafficSegments |-> trafficSegments[i].spend])

\* Two segmentations with spend, one a lower-case 'pq' campaign and one
\* naming both markers, both counted as caliente.
C12_Witness ==
    /\ tpc = "done"
    /\ \E i, j \in DOMAIN trafficSegments :
          /\ trafficSegments[i].campaign_name = <<"p", "q", "_", "1">>
          /\ trafficSegments[j].campaign_name = <<"p", "f", "_", "P", "Q">>
          /\ trafficSegments[i].spend > 0
          /\ trafficSegments[j].spend > 0
    /\ spendByTrafficType[1].caliente > 0
    /\ spendByTrafficType[1].frio = 0

(***************************************************************************)
(* Names                                                                   *)
(***************************************************************************)
\* C13: normalizeAdName is idempotent: applied to its own result it
\* returns that result, for every input.
C13_NormalizeIdempotent == npc = "done" => nameRenormalized = nameNormalized

\* C14: cleanDisplayName never returns the empty string, whatever the
\* input (the empty input included): a non-empty name or '[Sin nombre]'.
C14_CleanNeverEmpty == npc = "done" => nameCleaned # <<>>

\* C15: normalizeAdName returns the empty string only when
\* cleanDisplayName returns the '[Sin nombre]' sentinel.
C15_EmptyKeyOnlyForSentinel ==
    npc = "done" => (nameNormalized = <<>> => nameCleaned = SinNombre)

\* C16: the empty normalized ad name is never a join key: no spend
\* segmentation and no ad entry is created, looked up or accumulated
\* under it, so unnamed ads are never merged.
C16_NoEmptyJoinKey ==
    /\ \A k \in DOMAIN segmentations : segmentations[k].ad_name_normalized # <<>>
    /\ \A i \in DOMAIN ads : ads[i].key # <<>>

(***************************************************************************)
(* The co-production multiplier                                            *)
(***************************************************************************)
MatchedAmount == SumSeq([i \in DOMAIN matchedSales |-> matchedSales[i].monto])

ExpectedRevenue == IF coproduction THEN 2 * MatchedAmount ELSE MatchedAmount

\* C17: every revenue figure of the Revenue Aggregator (getRevenueData,
\* aggregateAdsFromMongo) is exactly 2 times the sum of the matched tracked
\* sale amounts with multiplyRevenue enabled, and exactly that sum with it
\* disabled.
C17_MultiplierOnce ==
    rpc = "done" =>
        /\ revenueFigures[1].getRevenueData = ExpectedRevenue
        /\ revenueFigures[1].aggregateAdsFromMongo = ExpectedRevenue
        /\ revenueFigures[1].aggregateAdsFromMongoLib = ExpectedRevenue

(***************************************************************************)
(* Requests                                                                *)
(***************************************************************************)
\* The request has left the validation of lines 546-563 behind.
Validated == hpc \in {"validated", "ledger", "done", "thrown"}

\* The form processDashboardData must refuse: a table name is missing, the
\* spend report is missing or empty, or no segmentation comes out of it.
InvalidForm ==
    \/ formData.base_table = ""
    \/ formData.sales_table = ""
    \/ formData.spend_report = <<>>
    \/ formData.spend_report[1].size = 0
    \/ processSpendCSV(formData.spend_report[1].rows).segmentations = <<>>

(***************************************************************************)
(* C18: when the base table or the sales table is missing, the spend CSV   *)
(* is missing or empty, or the spend CSV yields zero segmentations,        *)
(* processDashboardData fails with a validation error and has sent no      *)
(* statement to the store.                                                 *)
(***************************************************************************)
C18_ValidationBeforeStore ==
    (Validated /\ InvalidForm) =>
        /\ hpc = "thrown"
        /\ thrown \in {<<TablesRequired>>, <<CsvRequired>>, <<NoSpendData>>}
        /\ issued = {}

\* A report whose rows are all skipped was refused.
C18_Witness ==
    /\ hpc = "thrown"
    /\ thrown = <<NoSpendData>>
    /\ formData.spend_report[1].rows # <<>>
    /\ issued = {}

\* The query was sent and the store rejected it.
Failed(queryName) == Select(queryName) \in (store.failing \cap issued)

\* What a query function hands over: null when its query failed.
Fetched(queryName, rows) == IF Failed(queryName) THEN <<>> ELSE <<rows>>

\* The ledger of the spend report and of the rows that were fetched.
LedgerOfFetched ==
    BuildInteractiveData(
        processSpendCSV(formData.spend_report[1].rows),
        Fetched("revenue",
                [i \in DOMAIN store.revenue |->
                     IF "AD_ID" \in store.columns[formData.base_table]
                        /\ ShowColumns(formData.base_table, "AD_ID") \notin store.failing
                     THEN store.revenue[i]
                     ELSE [store.revenue[i] EXCEPT !.AD_ID = <<" ">>]]),
        Fetched("organic", store.organic))

(***************************************************************************)
(* C19: when a store query of processDashboardData fails (revenue,         *)
(* organic, quality, days-to-purchase, registration-date, traffic-type or  *)
(* country), the call does not throw: the returned object holds null (for  *)
(* the country view, the spend-only rows) for that sub-aggregation, and    *)
(* the ledger is built from the spend report and the rows that were        *)
(* fetched, with no revenue on any paid ad when the revenue query failed.  *)
(***************************************************************************)
C19_FailedQueryDegrades ==
    /\ (Validated /\ ~InvalidForm) => hpc # "thrown"
    /\ hpc = "done" =>
          LET r == response[1] IN
          /\ r.ads = LedgerOfFetched.ads
          /\ r.summary = LedgerOfFetched.summary
          /\ Failed("revenue") =>
                /\ r.summary.totalRevenueAll = 0
                /\ \A i \in DOMAIN r.ads :
                      r.ads[i].key # OrganicaKey =>
                          r.ads[i].total_revenue = 0 /\ r.ads[i].total_spend > 0
          /\ Failed("organic") => \A i \in DOMAIN r.ads : r.ads[i].key # OrganicaKey
          /\ Failed("quality") => r.qualityData = <<>>
          /\ Failed("days") => r.captationDaysData = <<>>
          /\ (Failed("registration") \/ Failed("registrationAds")) =>
                r.salesByRegistrationDate = <<>> /\ r.captationByAnuncio = <<>>
          /\ Failed("traffic") =>
                r.trafficTypeSummary = <<>> /\ r.captationByTrafficType = <<>>
          /\ Failed("trafficByDate") => r.captationByTrafficType = <<>>
          /\ Failed("country") =>
                r.countryData =
                    <<CountryData(formData.country_report[1].byCountry, <<>>)>>
          /\ Failed("countryByDate") =>
                r.salesByRegistrationDateByCountry = <<>> /\ r.captationByPais = <<>>

\* The revenue query failed and the ledger of the spend report came back.
C19_Witness ==
    /\ hpc = "done"
    /\ Failed("revenue")
    /\ response[1].ads # <<>>
    /\ response[1].summary.totalSpendAll > 0

\* The store with every probe answered and no column in the table.
WithoutColumns(tableName) ==
    [store EXCEPT !.failing = {}, !.columns[tableName] = {}]

\* Every probe of the candidates found no column or failed, and one failed.
ProbesFailed(tableName, candidates) ==
    /\ \A i \in DOMAIN candidates :
          ProbeOutcome(store, tableName, candidates[i]) # "present"
    /\ \E i \in DOMAIN candidates :
          /\ ProbeOutcome(store, tableName, candidates[i]) = "failed"
          /\ ShowColumns(tableName, candidates[i]) \in issued

(***************************************************************************)
(* C20: what columnExists, getDateColumn, getCountryColumn and             *)
(* getCampaignColumn report when the probe query fails differs from what   *)
(* they report when the query succeeds and the column does not exist.      *)
(***************************************************************************)
C20_ProbeTellsFailureFromAbsence ==
    hpc = "done" =>
        /\ ProbeOutcome(store, formData.base_table, "AD_ID") = "failed" =>
              hasAdId[1] # columnExists(WithoutColumns(formData.base_table),
                                        formData.base_table, "AD_ID")
        /\ ProbesFailed(formData.base_table, regDateCandidates) =>
              getDateColumn(store, formData.base_table, regDateCandidates).col
                  # getDateColumn(WithoutColumns(formData.base_table),
                                  formData.base_table, regDateCandidates).col
        /\ ProbesFailed(formData.base_table, CountryCandidates) =>
              getCountryColumn(store, formData.base_table).col
                  # getCountryColumn(WithoutColumns(formData.base_table),
                                     formData.base_table).col
        /\ ProbesFailed(formData.base_table, CampaignCandidates) =>
              getCampaignColumn(store, formData.base_table).col
                  # getCampaignColumn(WithoutColumns(formData.base_table),
                                      formData.base_table).col

(***************************************************************************)
(* Quality segments                                                        *)
(***************************************************************************)
\* The six categorical attributes of a quality row, blanks replaced by
\* their placeholder.
RowAttributes(row) ==
    <<OrDefault(row.QLEAD, SinClasificar), OrDefault(row.INGRESOS, NoEspecificado),
      OrDefault(row.ESTUDIOS, NoEspecificado), OrDefault(row.OCUPACION, NoEspecificado),
      OrDefault(row.PROPOSITO, NoEspecificado),
      OrDefault(row.EDAD_ESPECIFICA, NoEspecificado)>>

\* The six attributes a QualitySegment stores.
SegmentAttributes(seg) ==
    <<seg.qlead, seg.ingresos, seg.estudios, seg.ocupacion, seg.proposito,
      seg.edad_especifica>>

\* The leads of the rows read so far that carry the given attributes.
LeadsWithAttributes(attributes) ==
    SumSeq([i \in DOMAIN qualityLeadData |->
               IF RowAttributes(qualityLeadData[i]) = attributes
               THEN qualityLeadData[i].total_leads ELSE 0])

(***************************************************************************)
(* C21: in buildQualityAnalysis two rows are accumulated into the same     *)
(* QualitySegment exactly when they agree on the six categorical           *)
(* attributes (blanks replaced by the placeholder): every attribute tuple  *)
(* read has one segment, no two segments store the same tuple, and a       *)
(* segment's leads are the leads of the rows carrying its stored tuple.    *)
(***************************************************************************)
C21_SegmentPerAttributeTuple ==
    qpc = "rows" =>
        /\ \A i \in DOMAIN qualityLeadData :
              \E c \in DOMAIN qualitySegments :
                  SegmentAttributes(qualitySegments[c])
                      = RowAttributes(qualityLeadData[i])
        /\ \A c, d \in DOMAIN qualitySegments :
              SegmentAttributes(qualitySegments[c]) = SegmentAttributes(qualitySegments[d])
                  => c = d
        /\ \A c \in DOMAIN qualitySegments :
              qualitySegments[c].total_leads
                  = LeadsWithAttributes(SegmentAttributes(qualitySegments[c]))

(***************************************************************************)
(* Spend reports                                                           *)
(***************************************************************************)
\* The row counts: campaign, ad set and ad name are non-empty.
Counted(data) ==
    Trim(data.campaign) # <<>> /\ Trim(data.adset) # <<>> /\ Trim(data.ad) # <<>>

\* The group key of a row.
GroupKey(data) == <<normalizeAdName(Trim(data.ad)), normalizeAdName(Trim(data.adset))>>

\* The rows read so far that count under the key, in CSV order.
RowsOfKey(key) == SelectSeq(csvData, LAMBDA data : Counted(data) /\ GroupKey(data) = key)

\* The rows read so far that count under the normalized ad name.
RowsOfAd(ad) == SelectSeq(csvData, LAMBDA data : Counted(data) /\ GroupKey(data)[1] = ad)

\* amount / exchangeRate when exchangeRate > 0, else amount.
Converted(amount) == IF csvRate > 0 THEN amount \div csvRate ELSE amount

ReconcileSpend == processSpendCSV(recReport).segmentations

\* The entry carries the platform id of the spend segmentation.
MatchesById(entry, segData) ==
    segData.ad_id # <<>> /\ entry.ad_id # <<>> /\ entry.ad_id = segData.ad_id

\* The entry carries the normalized name of the spend segmentation.
MatchesByName(entry, segData) ==
    normalizeAdName(entry.name) = normalizeAdName(segData.segmentation_name)

(***************************************************************************)
(* C23: when, within the ad resolved for a spend segmentation, one entry   *)
(* matches it by platform id and a different entry matches it by           *)
(* normalized name, the spend is added to the entry matching by id, in     *)
(* whatever order the entries were created (checked on reports of one      *)
(* segmentation, where the entries' spend_allocated shows the target).     *)
(***************************************************************************)
C23_IdMatchBeforeNameMatch ==
    (kpc = "done" /\ Len(ReconcileSpend) = 1) =>
        \A a \in DOMAIN recResult[1].ads :
            \A i, j \in DOMAIN recResult[1].ads[a].segmentations :
                LET entries == recResult[1].ads[a].segmentations
                IN  (/\ i # j
                     /\ MatchesById(entries[i], ReconcileSpend[1])
                     /\ ~MatchesById(entries[j], ReconcileSpend[1])
                     /\ MatchesByName(entries[j], ReconcileSpend[1]))
                    => /\ entries[i].spend_allocated = ReconcileSpend[1].spend
                       /\ entries[j].spend_allocated = 0

(***************************************************************************)
(* C24: in the result of processDashboardData every ad's segmentations    *)
(* are ordered by revenue descending, and the returned ads, iterated in    *)
(* the key order of the returned object, are ordered by profit descending  *)
(* (also when ad keys are all digits).                                     *)
(***************************************************************************)
C24_ResultOrdered ==
    kpc = "done" =>
        /\ \A a \in DOMAIN recResult[1].ads :
              \A i, j \in DOMAIN recResult[1].ads[a].segmentations :
                  i < j => recResult[1].ads[a].segmentations[i].revenue
                              >= recResult[1].ads[a].segmentations[j].revenue
        /\ \A a, b \in DOMAIN recResult[1].ads :
              a < b => recResult[1].ads[a].profit >= recResult[1].ads[b].profit

(***************************************************************************)
(* C27: normalizeAdName(cleanDisplayName(s)) = normalizeAdName(s) for      *)
(* every raw name s, so that an entry stored under cleanDisplayName(s) is  *)
(* found again by the rows whose normalized segmentation is                *)
(* normalizeAdName(s).                                                     *)
(***************************************************************************)
C27_StoredNameFoundAgain ==
    npc = "done" => normalizeAdName(nameCleaned) = nameNormalized

(***************************************************************************)
(* C28: after processDashboardData finalizes the ledger every             *)
(* segmentation entry has profit = revenue - spend_allocated, whatever     *)
(* revenue rows and spend segmentations were read.                         *)
(***************************************************************************)
C28_EntryProfit ==
    kpc = "done" =>
        \A a \in DOMAIN recResult[1].ads :
            \A i \in DOMAIN recResult[1].ads[a].segmentations :
                LET entry == recResult[1].ads[a].segmentations[i]
                IN  entry.profit = entry.revenue - entry.spend_allocated

(***************************************************************************)
(* The registration-date cohort                                            *)
(***************************************************************************)
\* The grouped row an entry of adsByDate was built from: the rows of
\* DateAdRows differ in their date and figures.
RowOfEntry(r, e) ==
    /\ e.date = r.fecha_reg
    /\ e.leads = r.leads
    /\ e.sales = r.sales
    /\ e.revenue = r.revenue

CohortKey(r) == <<normalizeAdName(r.anuncio), normalizeAdName(r.segmentacion)>>

\* The daily figure of the exact date and key, else the total of the key
\* that is not daily, else 0.
DailyElseTotal(r) ==
    IF <<r.fecha_reg, CohortKey(r)>> \in DOMAIN spendByDate
    THEN spendByDate[<<r.fecha_reg, CohortKey(r)>>]
    ELSE IF FindKey(viewSegmentations, CohortKey(r)) # 0
         THEN viewSegmentations[FindKey(viewSegmentations, CohortKey(r))].spend
         ELSE 0

GastoOfDate(date) ==
    SumSeq([j \in DOMAIN SelectSeq(adsByDate, LAMBDA a : a.date = date) |->
               SelectSeq(adsByDate, LAMBDA a : a.date = date)[j].gasto])

(***************************************************************************)
(* C25: every (registration date, ad, segmentation) row of the cohort has  *)
(* as gasto the daily figure of exactly its date and normalized            *)
(* ad|segmentation key when there is one, else the non-daily total of the  *)
(* key, else 0; a date row's gasto is the sum of the gasto of its ad rows  *)
(* and its cpl is gasto/leads when leads > 0 and 0 otherwise.  Stated for  *)
(* getSalesByRegistrationDate and getSalesByRegistrationDateFromMongo.     *)
(***************************************************************************)
C25_GastoDailyElseTotal ==
    /\ \A i \in DOMAIN adsByDate :
          \A r \in DateAdRows :
             RowOfEntry(r, adsByDate[i]) => adsByDate[i].gasto = DailyElseTotal(r)
    /\ \A i \in DOMAIN salesByRegistrationDate :
          LET row == salesByRegistrationDate[i]
          IN  /\ row.gasto = GastoOfDate(row.date)
              /\ row.cpl = IF row.leads > 0 THEN Ratio(row.gasto, row.leads) ELSE RZero

\* The same statement for the rows built by getSalesByRegistrationDate alone.
C25_SqlCohort == vpc \in {"dates", "country", "done"} => C25_GastoDailyElseTotal

\* A cohort of getSalesByRegistrationDate with a row that takes the daily
\* figure and a row that falls back to the total of its key.
C25_SqlCohortReached ==
    /\ vpc = "done"
    /\ Len(adsByDate) = 2
    /\ adsByDate[1].date = Day1 /\ adsByDate[1].gasto = 2500
    /\ adsByDate[2].date = Day2 /\ adsByDate[2].gasto = 10000
    /\ salesByRegistrationDate[1].gasto = 2500
    /\ salesByRegistrationDate[2].cpl = Ratio(10000, 2)

(***************************************************************************)
(* C29: for every normalized ad|segmentation key of the spend ledger, the  *)
(* gasto attributed to the key summed over all registration dates does not *)
(* exceed the total spend of the key: the same spend is never attributed   *)
(* to more than one date.  Each (date, ad, segmentation) group is one row, *)
(* so the rows of the cohort are pairwise different.                       *)
(***************************************************************************)
GroupedOnce ==
    \A i, j \in DOMAIN adsByDate :
       (adsByDate[i].date = adsByDate[j].date
          /\ adsByDate[i].leads = adsByDate[j].leads) => i = j

EntriesOfKey(key) ==
    SelectSeq(adsByDate,
              LAMBDA e : \E r \in DateAdRows : RowOfEntry(r, e) /\ CohortKey(r) = key)

C29_GastoWithinTotalSpend ==
    GroupedOnce =>
       \A k \in DOMAIN viewSegmentations :
          SumSeq([j \in DOMAIN EntriesOfKey(viewSegmentations[k].key) |->
                     EntriesOfKey(viewSegmentations[k].key)[j].gasto])
             <= viewSegmentations[k].spend

(***************************************************************************)
(* C26: aggregateAdsFromMongo adds every spend total of the spend map to   *)
(* the ledger exactly once: the sum of total_spend over the returned ads   *)
(* equals the sum of the spend map's totals, up to the rounding of each    *)
(* ad's total to two decimals, also when several grouped revenue rows      *)
(* share a normalized ad and segmentation and when a spend key has an      *)
(* empty normalized ad name.                                               *)
(***************************************************************************)
MongoSpendOfReport ==
    LET spendMap == MongoSpendMap(processSpendCSV(mongoReport).segmentations)
    IN  SumSeq([i \in DOMAIN spendMap |-> spendMap[i].spend])

MongoSpendOfAds ==
    SumSeq([a \in DOMAIN mongoAds[1] |-> mongoAds[1][a].total_spend])

C26_SpendAddedOnce ==
    mpc = "done" =>
       Abs(MongoSpendOfAds - MongoSpendOfReport) * 2 <= Cent * Len(mongoAds[1])

(***************************************************************************)
(* C30: after every completed call of syncMySQLToMongo the staging store   *)
(* holds, for the synchronized pair of tables, exactly one lead document   *)
(* per base row and one sale document per sales row of the sync that       *)
(* completed last, also when two syncs interleave their deletes and        *)
(* inserts.  Stated for the moments at which no call is running.           *)
(***************************************************************************)
Staged(col) == SelectSeq(col, LAMBDA doc : doc.config_id = SyncConfig)

SameDocuments(col, docs) ==
    /\ Len(col) = Len(docs)
    /\ \A i \in DOMAIN docs :
          Cardinality({j \in DOMAIN col : col[j] = docs[i]})
             = Cardinality({j \in DOMAIN docs : docs[j] = docs[i]})

NoSyncRunning == \A p \in SyncCallers : spc[p] = "idle"

C30_StagedIsLastSync ==
    (lastSync # <<>> /\ NoSyncRunning) =>
       /\ SameDocuments(Staged(leadsCol), lastSync[1].leads)
       /\ SameDocuments(Staged(salesCol), lastSync[1].sales)

====
